---- MODULE Spec2Model ----
(***************************************************************************)
(* A model of the EqLink client library (ChmuraEcon/EqLink): the response  *)
(* normaliser (eqlink/utilities/parsers.py), the transport                 *)
(* (eqlink/utilities/general.py), the payload builders                     *)
(* (eqlink/utilities/constructors.py), the connection                      *)
(* (eqlink/connecter.py) and endpoints of eqlink/analytics (rti.py,        *)
(* tablebuilders.py, compound.py, core.py, api.py).                        *)
(*                                                                         *)
(* The state of the model is the call in progress (which operation was     *)
(* called, with which arguments, what went over the wire, how the call     *)
(* ended) and the objects that outlive a call: the connection, a payload   *)
(* builder the caller holds, and the payload the last endpoint built.      *)
(***************************************************************************)
EXTENDS Integers, Sequences, FiniteSets, TLC

VARIABLES
    pc,        \* "idle": no call in progress; "done": a call has ended
    fn,        \* the operation that was called
    args,      \* its arguments
    ret,       \* how it ended: a returned value or a raised error
    payload,   \* the payload of the constructor the last endpoint call made
    requests,  \* the HTTP requests the call sent, in order
    replies,   \* what came back for each: a response or a transport exception
    printed,   \* the lines the call printed, in order
    cnxn,      \* the JobsEqConnection the caller holds, if any
    constructor, \* the PayloadConstructor the caller holds, if any
    calls      \* the operations called on that constructor, in order

vars == <<pc, fn, args, ret, payload, requests, replies, printed, cnxn, constructor,
          calls>>

(***************************************************************************)
(* Bounds of the model.                                                    *)
(***************************************************************************)
MaxCols == 2     \* columns of a table reply
MaxRows == 2     \* rows of a table, of a section, of a sub-table; records; points
MaxCells == 4    \* cells of a table reply (rows times columns)
MaxWide == 3     \* columns of a table reply whose cells are all numbers
MaxGroups == 2   \* sections of a demographic reply, sub-tables of a resume reply
MaxFilters == 2  \* RtiFilter objects passed to an RTI endpoint
MaxFields == 2   \* DfField objects passed to DataFetch.occupation
MaxCalls == 3    \* operations called on one PayloadConstructor

(***************************************************************************)
(* Python and JSON values.  Every value carries its type, as type() and    *)
(* isinstance() tell them apart in the code.  A dict is the sequence of    *)
(* its <<key, value>> items in insertion order, keys unique.               *)
(***************************************************************************)
None == [t |-> "null"]
JStr(s) == [t |-> "str", v |-> s]
JInt(n) == [t |-> "int", v |-> n]
JBool(b) == [t |-> "bool", v |-> b]
JList(xs) == [t |-> "list", v |-> xs]
JDict(items) == [t |-> "dict", v |-> items]

IsDict(x) == x.t = "dict"

\* Python truthiness, as `if header:` and `if rti_filters:` test it.
Truthy(x) ==
    CASE x.t = "null" -> FALSE
      [] x.t = "str" -> x.v # ""
      [] x.t = "int" -> x.v # 0
      [] x.t = "bool" -> x.v
      [] x.t = "list" -> x.v # <<>>
      [] x.t = "dict" -> x.v # <<>>
      [] OTHER -> TRUE

Return(v) == [kind |-> "return", value |-> v]
Raise(e) == [kind |-> "raise", error |-> e]
RaiseMsg(e, message) == [kind |-> "raise", error |-> e, message |-> message]
NoOutcome == [kind |-> "none"]

\* A name of the caller that is bound to no object yet.
NoObject == [t |-> "unbound"]

Min(a, b) == IF a <= b THEN a ELSE b

SeqsUpTo(S, n) == UNION {[1..k -> S] : k \in 0..n}

\* list.index(x): the first position holding x (0 when there is none).
Index(xs, x) ==
    IF \E i \in 1..Len(xs) : xs[i] = x
    THEN CHOOSE i \in 1..Len(xs) : xs[i] = x /\ \A j \in 1..(i - 1) : xs[j] # x
    ELSE 0

\* k in d
DictHas(items, k) == \E i \in 1..Len(items) : items[i][1] = k

\* d[k], for a key the dict has
DictGet(items, k) == items[CHOOSE i \in 1..Len(items) : items[i][1] = k][2]

\* list(d.keys())
DictKeys(items) == [i \in 1..Len(items) |-> items[i][1]]

\* DictSet leaving the value of an existing key as it is.
DictSet_KeepOld(items, k, v) ==
    IF DictHas(items, k) THEN items ELSE Append(items, <<k, v>>)

\* d[k] = v: an existing key keeps its place and gets the new value, a new
\* key goes last.
DictSet(items, k, v) ==
    IF DictHas(items, k)
    THEN [i \in 1..Len(items) |-> IF items[i][1] = k THEN <<k, v>> ELSE items[i]]
    ELSE Append(items, <<k, v>>)

\* a | b
RECURSIVE DictMerge(_, _)
DictMerge(a, b) ==
    IF b = <<>> THEN a
    ELSE DictMerge(DictSet(a, b[1][1], b[1][2]), Tail(b))

(***************************************************************************)
(* pandas.  A frame is its column labels in order (a label is a string or  *)
(* an integer), its number of rows and the values of each column.          *)
(***************************************************************************)
Frame(columns, nrows, data) ==
    [t |-> "frame", columns |-> columns, nrows |-> nrows, data |-> data]

\* FromDict reading the dict by rows (orient="index"): one row per key.
FromDict_ByRows(items) ==
    IF items = <<>> THEN Return(Frame(<<>>, 0, <<>>))
    ELSE Return(Frame([c \in 1..Len(items[1][2]) |-> JInt(c - 1)],
                      Len(items),
                      [c \in 1..Len(items[1][2]) |->
                          [r \in 1..Len(items) |-> items[r][2][c]]]))

\* pd.DataFrame.from_dict(d) for a dict of lists (orient="columns"): one
\* column per key, in key order; lists of unequal length are refused.
FromDict(items) ==
    IF items = <<>> THEN Return(Frame(<<>>, 0, <<>>))
    ELSE IF \E i \in 1..Len(items) : Len(items[i][2]) # Len(items[1][2])
    THEN Raise("ValueError")
    ELSE Return(Frame([i \in 1..Len(items) |-> JStr(items[i][1])],
                      Len(items[1][2]),
                      [i \in 1..Len(items) |-> items[i][2]]))

(***************************************************************************)
(* Parse.core_analytic                                                     *)
(***************************************************************************)
\* CoreCell with the displayValue and code branches the other way round.
CoreCell_CodeFirst(value) ==
    IF ~IsDict(value) THEN Return(value)
    ELSE IF DictHas(value.v, "displayText") THEN Return(DictGet(value.v, "displayText"))
    ELSE IF DictHas(value.v, "code") THEN Return(DictGet(value.v, "code"))
    ELSE IF DictHas(value.v, "displayValue") THEN Return(DictGet(value.v, "displayValue"))
    ELSE Raise("ValueError")

\* The cell loop's body: a non-dict is copied, a dict is replaced by one
\* member; Raise when the dict has none of the three.
CoreCell(value) ==
    IF ~IsDict(value) THEN Return(value)
    ELSE IF DictHas(value.v, "displayText") THEN Return(DictGet(value.v, "displayText"))
    ELSE IF DictHas(value.v, "displayValue") THEN Return(DictGet(value.v, "displayValue"))
    ELSE IF DictHas(value.v, "code") THEN Return(DictGet(value.v, "code"))
    ELSE Raise("ValueError")

\* The row loop: table, or the error of the first cell that raises.
\* CoreTable leaving out the cells CoreCell refuses.
CoreTable_SkipUnknown(rows) ==
    Return([r \in 1..Len(rows) |->
               LET kept == SelectSeq(rows[r], LAMBDA cell : CoreCell(cell).kind = "return")
               IN [c \in 1..Len(kept) |-> CoreCell(kept[c]).value]])

\* The row loop: the table of unwrapped cells, or the error of the first
\* cell CoreCell refuses.
CoreTable(rows) ==
    IF \E r \in 1..Len(rows) : \E c \in 1..Len(rows[r]) :
           CoreCell(rows[r][c]).kind = "raise"
    THEN Raise("ValueError")
    ELSE Return([r \in 1..Len(rows) |->
                    [c \in 1..Len(rows[r]) |-> CoreCell(rows[r][c]).value]])

\* HeaderColumn finding the last position that holds the header.
HeaderColumn_Last(headers, header) ==
    CHOOSE i \in 1..Len(headers) :
        headers[i] = header /\ \A j \in (i + 1)..Len(headers) : headers[j] # header

\* The column a header is read from: headers.index(header).
HeaderColumn(headers, header) == Index(headers, header)

\* Pivot keeping every header that is not None, the empty name included.
RECURSIVE Pivot_KeepEmpty(_, _, _, _)
Pivot_KeepEmpty(headers, table, k, dict_table) ==
    IF k > Len(headers) THEN Return(dict_table)
    ELSE LET header == headers[k]
             j == HeaderColumn(headers, header)
         IN IF \E r \in 1..Len(table) : Len(table[r]) < j
            THEN Raise("IndexError")
            ELSE LET values == [r \in 1..Len(table) |-> table[r][j]]
                 IN Pivot_KeepEmpty(headers, table, k + 1,
                                    IF header # None
                                    THEN DictSet(dict_table, header.v, values)
                                    ELSE dict_table)

\* The header loop over headers[k..]: every header's values are read at
\* headers.index(header) of each row (IndexError on a row too short),
\* and kept when the header is truthy.
RECURSIVE Pivot(_, _, _, _)
Pivot(headers, table, k, dict_table) ==
    IF k > Len(headers) THEN Return(dict_table)
    ELSE LET header == headers[k]
             j == HeaderColumn(headers, header)
         IN IF \E r \in 1..Len(table) : Len(table[r]) < j
            THEN Raise("IndexError")
            ELSE LET values == [r \in 1..Len(table) |-> table[r][j]]
                 IN Pivot(headers, table, k + 1,
                          IF Truthy(header)
                          THEN DictSet(dict_table, header.v, values)
                          ELSE dict_table)

core_analytic(response, as_frame) ==
    LET columns == response.table.columns
        rows == response.table.rows
        headers == [i \in 1..Len(columns) |-> columns[i].name]
        table == CoreTable(rows)
    IN IF table.kind = "raise" THEN table
       ELSE LET dict_table == Pivot(headers, table.value, 1, <<>>)
            IN IF dict_table.kind = "raise" THEN dict_table
               ELSE IF as_frame THEN FromDict(dict_table.value)
               ELSE Return(JDict(dict_table.value))

(***************************************************************************)
(* Parse.maps                                                              *)
(***************************************************************************)
\* parse_nested_dict: displayText, else code, else the same dict with
\* every dict member parsed in turn.
RECURSIVE parse_nested_dict(_)
parse_nested_dict(d) ==
    IF DictHas(d.v, "displayText") THEN DictGet(d.v, "displayText")
    ELSE IF DictHas(d.v, "code") THEN DictGet(d.v, "code")
    ELSE JDict([i \in 1..Len(d.v) |->
                   <<d.v[i][1],
                     IF IsDict(d.v[i][2]) THEN parse_nested_dict(d.v[i][2])
                     ELSE d.v[i][2]>>])

\* The cell loop's body of maps; no branch raises.
MapsCell(value) ==
    IF ~IsDict(value) THEN value
    ELSE IF DictHas(value.v, "displayText") THEN DictGet(value.v, "displayText")
    ELSE IF DictHas(value.v, "code") THEN DictGet(value.v, "code")
    ELSE parse_nested_dict(value)

\* MapsHeaders renaming a second name that is empty as it does a null one.
MapsHeaders_EmptyToo(names, titleCaption) ==
    IF Len(names) < 2 THEN Raise("IndexError")
    ELSE LET h1 == [names EXCEPT ![1] = JStr("RegionFIPS")]
         IN IF ~Truthy(h1[2]) THEN Return([h1 EXCEPT ![2] = titleCaption])
            ELSE Return(h1)

\* headers after the two renamings; both index the list, which raises on
\* a list too short.
MapsHeaders(names, titleCaption) ==
    IF Len(names) < 1 THEN Raise("IndexError")
    ELSE LET h1 == [names EXCEPT ![1] = JStr("RegionFIPS")]
         IN IF Len(h1) < 2 THEN Raise("IndexError")
            ELSE IF h1[2] = None THEN Return([h1 EXCEPT ![2] = titleCaption])
            ELSE Return(h1)

\* The header loop of maps (lines 79-84) is that of core_analytic.
maps(response, as_frame) ==
    LET columns == response.map.map.columns
        rows == response.map.map.rows
        headers == MapsHeaders([i \in 1..Len(columns) |-> columns[i].name],
                               response.map.map.titleCaption)
    IN IF headers.kind = "raise" THEN headers
       ELSE LET table == [r \in 1..Len(rows) |->
                             [c \in 1..Len(rows[r]) |-> MapsCell(rows[r][c])]]
                dict_table == Pivot(headers.value, table, 1, <<>>)
            IN IF dict_table.kind = "raise" THEN dict_table
               ELSE IF as_frame THEN FromDict(dict_table.value)
               ELSE Return(JDict(dict_table.value))

(***************************************************************************)
(* Parse.demo_current                                                      *)
(***************************************************************************)
\* The rows of all sections, in the order the two loops visit them.
RECURSIVE SectionRows(_)
SectionRows(sections) ==
    IF sections = <<>> THEN <<>>
    ELSE sections[1].rows \o SectionRows(Tail(sections))

\* DemoEntry with row[1] and row[2] taken for each other.
DemoEntry_Swapped(row) ==
    IF ~DictHas(row[1].v, "displayText") \/ ~DictHas(row[3].v, "value")
    THEN Raise("KeyError")
    ELSE Return([var |-> DictGet(row[1].v, "displayText"),
                 val |-> row[2],
                 prc |-> DictGet(row[3].v, "value")])

\* What one row appends to vars, vals and prcs: row[0]["displayText"],
\* row[2]["value"] and row[1] (Python counts from 0).
DemoEntry(row) ==
    IF ~DictHas(row[1].v, "displayText") \/ ~DictHas(row[3].v, "value")
    THEN Raise("KeyError")
    ELSE Return([var |-> DictGet(row[1].v, "displayText"),
                 val |-> DictGet(row[3].v, "value"),
                 prc |-> row[2]])

demo_current(response, as_frame) ==
    LET rows == SectionRows(response.table.sections)
    IN IF \E k \in 1..Len(rows) : DemoEntry(rows[k]).kind = "raise"
       THEN Raise("KeyError")
       ELSE LET table == << <<"Demographic", [k \in 1..Len(rows) |-> DemoEntry(rows[k]).value.var]>>,
                            <<"Value", [k \in 1..Len(rows) |-> DemoEntry(rows[k]).value.val]>>,
                            <<"Percentage", [k \in 1..Len(rows) |-> DemoEntry(rows[k]).value.prc]>> >>
            IN IF as_frame THEN FromDict(table) ELSE Return(JDict(table))

(***************************************************************************)
(* Parse.labor_wage_trends                                                 *)
(***************************************************************************)
\* pd.to_datetime(x, unit="ms") of one value: a number of milliseconds
\* becomes a timestamp, a missing value stays missing.
ToDatetime(x) ==
    IF x.t = "int" THEN [t |-> "datetime", v |-> x.v] ELSE [t |-> "NaT"]

\* frame[label] = pd.to_datetime(frame[label], unit="ms"); KeyError when
\* the frame has no such column.
ConvertColumn(frame, label) ==
    IF \A i \in 1..Len(frame.columns) : frame.columns[i] # JStr(label)
    THEN Raise("KeyError")
    ELSE Return([frame EXCEPT !.data =
             [i \in 1..Len(frame.columns) |->
                 IF frame.columns[i] = JStr(label)
                 THEN [r \in 1..Len(frame.data[i]) |-> ToDatetime(frame.data[i][r])]
                 ELSE frame.data[i]]])

\* The try block and its except KeyError clause: the names of the two
\* columns.  chart is the dict response["chart"]; subTitle is a list.
TrendHeaders(chart) ==
    IF DictHas(chart.v, "subTitle") /\ DictGet(chart.v, "subTitle").v = <<>>
    THEN Raise("IndexError")
    ELSE IF DictHas(chart.v, "subTitle") /\ DictHas(chart.v, "yAxis")
            /\ DictHas(DictGet(chart.v, "yAxis").v, "title")
    THEN Return(<<"Date", DictGet(chart.v, "subTitle").v[1].v
                          \o DictGet(DictGet(chart.v, "yAxis").v, "title").v>>)
    ELSE IF DictHas(chart.v, "title")
    THEN Return(<<"Date", DictGet(chart.v, "title").v>>)
    ELSE Raise("KeyError")

\* The loop `for i in range(2)`: table[headers[i]] = [datarow[i] ...].
RECURSIVE TrendColumns(_, _, _, _)
TrendColumns(headers, data, i, table) ==
    IF i > 2 THEN Return(table)
    ELSE IF \E k \in 1..Len(data) : Len(data[k]) < i THEN Raise("IndexError")
    ELSE TrendColumns(headers, data, i + 1,
                      DictSet(table, headers[i], [k \in 1..Len(data) |-> data[k][i]]))

labor_wage_trends(response, as_frame) ==
    LET chart == response.chart
        headers == TrendHeaders(chart)
        series == DictGet(chart.v, "series").v
    IN IF headers.kind = "raise" THEN headers
       ELSE IF series = <<>> THEN Raise("IndexError")
       ELSE LET table == TrendColumns(headers.value, series[1].data, 1, <<>>)
            IN IF table.kind = "raise" THEN table
               ELSE IF ~as_frame THEN Return(JDict(table.value))
               ELSE LET frame == FromDict(table.value)
                    IN IF frame.kind = "raise" THEN frame
                       ELSE ConvertColumn(frame.value, "Date")

(***************************************************************************)
(* Parse.v2_core and Parse.v2_core_rti_overtime                            *)
(***************************************************************************)
\* The two loops over `records`: one column per key of the first record,
\* holding row[header] of every record; KeyError when a record lacks it.
RECURSIVE V2Columns(_, _, _, _)
V2Columns(headers, records, k, parsed_dict) ==
    IF k > Len(headers) THEN Return(parsed_dict)
    ELSE IF \E r \in 1..Len(records) : ~DictHas(records[r].v, headers[k])
    THEN Raise("KeyError")
    ELSE V2Columns(headers, records, k + 1,
                   DictMerge(parsed_dict,
                             << <<headers[k],
                                  [r \in 1..Len(records) |->
                                      DictGet(records[r].v, headers[k])]>> >>))

\* v2_core taking its headers from the keys of the last record.
v2_core_LastRecordKeys(response, as_frame) ==
    LET data == response.data
    IN IF data = <<>> THEN Raise("IndexError")
       ELSE LET parsed_dict == V2Columns(DictKeys(data[Len(data)].v), data, 1, <<>>)
            IN IF parsed_dict.kind = "raise" THEN parsed_dict
               ELSE IF as_frame THEN FromDict(parsed_dict.value)
               ELSE Return(JDict(parsed_dict.value))

v2_core(response, as_frame) ==
    LET data == response.data
    IN IF data = <<>> THEN Raise("IndexError")
       ELSE LET parsed_dict == V2Columns(DictKeys(data[1].v), data, 1, <<>>)
            IN IF parsed_dict.kind = "raise" THEN parsed_dict
               ELSE IF as_frame THEN FromDict(parsed_dict.value)
               ELSE Return(JDict(parsed_dict.value))

v2_core_rti_overtime(response, as_frame) ==
    LET data == response.data
    IN IF data = <<>> THEN Raise("IndexError")
       ELSE IF data[1].series = <<>> THEN Raise("IndexError")
       ELSE LET series == data[1].series
                parsed_dict == V2Columns(DictKeys(series[1].v), series, 1, <<>>)
            IN IF parsed_dict.kind = "raise" THEN parsed_dict
               ELSE IF ~as_frame THEN Return(JDict(parsed_dict.value))
               ELSE LET df == FromDict(parsed_dict.value)
                    IN IF df.kind = "raise" THEN df
                       ELSE ConvertColumn(df.value, "date")

(***************************************************************************)
(* Parse.resumes                                                           *)
(***************************************************************************)
\* ResumeEntries without the test of the label.
RECURSIVE ResumeEntries_KeepAll(_)
ResumeEntries_KeepAll(tables) ==
    IF tables = <<>> THEN <<>>
    ELSE [k \in 1..Len(tables[1].rows) |->
             [category |-> tables[1].category, valueset |-> tables[1].rows[k]]]
         \o ResumeEntries_KeepAll(Tail(tables))

\* What the two loops append, in order: one entry per row that is not
\* labelled "Unclassified", tagged with its sub-table's category.
RECURSIVE ResumeEntries(_)
ResumeEntries(tables) ==
    IF tables = <<>> THEN <<>>
    ELSE LET subtable == tables[1]
             kept == SelectSeq(subtable.rows,
                               LAMBDA valueset : valueset.label # JStr("Unclassified"))
         IN [k \in 1..Len(kept) |->
                [category |-> subtable.category, valueset |-> kept[k]]]
            \o ResumeEntries(Tail(tables))

resumes(results, as_frame) ==
    LET entries == ResumeEntries(results.tables)
        parsed_table ==
            << <<"Category", [k \in 1..Len(entries) |-> entries[k].category]>>,
               <<"Label", [k \in 1..Len(entries) |-> entries[k].valueset.label]>>,
               <<"Counts", [k \in 1..Len(entries) |-> entries[k].valueset.count]>>,
               <<"Entry Wages", [k \in 1..Len(entries) |-> entries[k].valueset.entryWages]>> >>
    IN IF as_frame THEN FromDict(parsed_table) ELSE Return(JDict(parsed_table))

(***************************************************************************)
(* Parse.list_availible and Parse.type_availible                           *)
(***************************************************************************)
PyTuple(xs) == [t |-> "tuple", v |-> xs]

\* `analytic_prefix in ("ana")` tests a string, not a tuple: it holds for
\* every substring of "ana".
InAna(prefix) == prefix \in {"", "a", "n", "an", "na", "ana"}

\* What the three ifs of the loop body do to analytic_list for one item.
ListItem(analytic_list, item, prefix) ==
    LET needsC == prefix \in {"reg", "occ", "ind", "cip", "dem"}
        needsT == prefix \in {"reg", "occ", "ind"}
    IN IF \/ needsC /\ ~DictHas(item.v, "c")
          \/ needsC /\ ~DictHas(item.v, "d")
          \/ needsT /\ ~DictHas(item.v, "t")
          \/ InAna(prefix) /\ ~(DictHas(item.v, "id") /\ DictHas(item.v, "name"))
       THEN Raise("KeyError")
       ELSE LET l1 == IF needsT
                      THEN DictSet(analytic_list, DictGet(item.v, "c").v,
                                   PyTuple(<<DictGet(item.v, "t"), DictGet(item.v, "d")>>))
                      ELSE analytic_list
                l2 == IF prefix \in {"cip", "dem"}
                      THEN DictSet(l1, DictGet(item.v, "c").v, DictGet(item.v, "d"))
                      ELSE l1
                l3 == IF InAna(prefix)
                      THEN DictSet(l2, DictGet(item.v, "id").v, DictGet(item.v, "name"))
                      ELSE l2
            IN Return(l3)

RECURSIVE ListLoop(_, _, _)
ListLoop(analytic_list, items, prefix) ==
    IF items = <<>> THEN Return(analytic_list)
    ELSE LET one == ListItem(analytic_list, items[1], prefix)
         IN IF one.kind = "raise" THEN one
            ELSE ListLoop(one.value, Tail(items), prefix)

\* pd.DataFrame.from_dict(d, "index") followed by reset_index(): one row
\* per key; the keys become the first column, labelled "index"; the
\* members of a tuple value fill the columns labelled 0, 1, ..; a value
\* that is no tuple fills the one column labelled 0.
IndexFrame(items) ==
    IF items = <<>> THEN Frame(<<JStr("index")>>, 0, << <<>> >>)
    ELSE LET width == IF items[1][2].t = "tuple" THEN Len(items[1][2].v) ELSE 1
             cell(r, c) == IF items[r][2].t = "tuple" THEN items[r][2].v[c]
                           ELSE items[r][2]
         IN Frame(<<JStr("index")>> \o [c \in 1..width |-> JInt(c - 1)],
                  Len(items),
                  << [r \in 1..Len(items) |-> JStr(items[r][1])] >>
                  \o [c \in 1..width |-> [r \in 1..Len(items) |-> cell(r, c)]])

\* frame.rename(columns=mapping): a label the mapping has is replaced.
Rename(frame, mapping) ==
    [frame EXCEPT !.columns =
        [i \in 1..Len(frame.columns) |->
            IF \E m \in 1..Len(mapping) : mapping[m][1] = frame.columns[i]
            THEN mapping[CHOOSE m \in 1..Len(mapping) :
                             mapping[m][1] = frame.columns[i]][2]
            ELSE frame.columns[i]]]

list_availible(unparsed_response, analytic_prefix, as_frame) ==
    LET analytic_list == ListLoop(<<>>, unparsed_response, analytic_prefix)
    IN IF analytic_list.kind = "raise" THEN analytic_list
       ELSE IF ~as_frame THEN Return(JDict(analytic_list.value))
       ELSE Return(Rename(IndexFrame(analytic_list.value),
                << <<JStr("index"), JStr(analytic_prefix \o "_code")>>,
                   <<JInt(0), JStr(analytic_prefix \o "_type")>>,
                   <<JInt(1), JStr(analytic_prefix \o "_description")>> >>))

RECURSIVE TypeLoop(_, _)
TypeLoop(analytic_list, items) ==
    IF items = <<>> THEN Return(analytic_list)
    ELSE IF ~(DictHas(items[1].v, "id") /\ DictHas(items[1].v, "name"))
    THEN Raise("KeyError")
    ELSE TypeLoop(DictSet(analytic_list, DictGet(items[1].v, "id").v,
                          DictGet(items[1].v, "name")),
                  Tail(items))

type_availible(unparsed_response, analytic_name, as_frame) ==
    LET analytic_list == TypeLoop(<<>>, unparsed_response)
    IN IF analytic_list.kind = "raise" THEN analytic_list
       ELSE IF ~as_frame THEN Return(JDict(analytic_list.value))
       ELSE Return(Rename(IndexFrame(analytic_list.value),
                << <<JStr("index"), JStr(analytic_name \o "_id")>>,
                   <<JInt(0), JStr(analytic_name \o "_name")>> >>))

(***************************************************************************)
(* json.dumps and json.loads                                               *)
(***************************************************************************)
RECURSIVE JoinStrings(_, _)
JoinStrings(strs, sep) ==
    IF strs = <<>> THEN ""
    ELSE IF Len(strs) = 1 THEN strs[1]
    ELSE strs[1] \o sep \o JoinStrings(Tail(strs), sep)

\* json.dumps(x) with the default separators, for strings that need no
\* escaping.
RECURSIVE JsonDumps(_)
JsonDumps(x) ==
    CASE x.t = "null" -> "null"
      [] x.t = "bool" -> IF x.v THEN "true" ELSE "false"
      [] x.t = "int" -> ToString(x.v)
      [] x.t = "str" -> "\"" \o x.v \o "\""
      [] x.t = "list" ->
             "[" \o JoinStrings([i \in 1..Len(x.v) |-> JsonDumps(x.v[i])], ", ") \o "]"
      [] x.t = "dict" ->
             "{" \o JoinStrings([i \in 1..Len(x.v) |->
                                    "\"" \o x.v[i][1] \o "\": " \o JsonDumps(x.v[i][2])],
                                ", ") \o "}"

\* The content of a response stands for the JSON value its bytes encode;
\* bytes that encode none are Garbage, which json.loads refuses.
Garbage == [t |-> "garbage"]

JsonLoads(content) ==
    IF content = Garbage THEN Raise("JSONDecodeError") ELSE Return(content)

(***************************************************************************)
(* PayloadConstructor and DataFetchConstructor                             *)
(***************************************************************************)
\* PayloadConstructor_init taking up the payload the last endpoint call
\* left behind.
PayloadConstructor_Leftover == payload

\* __init__: self.payload = {}
PayloadConstructor_init == <<>>

\* A PayloadConstructor object with the payload p.
PayloadConstructor(p) == [t |-> "PayloadConstructor", payload |-> p]

DataFetchConstructor_init == <<>>

\* {"code": code, "type": type}
CodeType(code, type) == JDict(<< <<"code", code>>, <<"type", type>> >>)

add_region(p, region, region_type) ==
    DictMerge(p, << <<"region", CodeType(region, region_type)>> >>)

add_regions(p, region, region_type) ==
    DictMerge(p, << <<"regions",
                      JList(<<JDict(<<<<"code", region>>, <<"type", region_type>>>>)>>)>> >>)

add_regionFilter(p, region, region_type) ==
    DictMerge(p, << <<"regionFilter", CodeType(region, region_type)>> >>)

add_occupation(p, soc_code, soc_type) ==
    DictMerge(p, << <<"occupation", CodeType(soc_code, soc_type)>> >>)

add_occupations(p, soc_code, soc_type) ==
    DictMerge(p, << <<"occupations", JList(<<CodeType(soc_code, soc_type)>>)>> >>)

add_rti_occupation(p, soc_code, soc_type) ==
    DictMerge(p, << <<"rtiOccupation", CodeType(soc_code, soc_type)>> >>)

add_industry(p, ind_code, ind_type) ==
    DictMerge(p, << <<"industry", CodeType(ind_code, ind_type)>> >>)

add_cip(p, cip_code, cip_type) ==
    DictMerge(p, << <<"cip", CodeType(cip_code, cip_type)>> >>)

add_cipsoc(p, cip_code, cip_type) ==
    DictMerge(p, << <<"cipSoc", CodeType(cip_code, cip_type)>> >>)

add_skill(p, skill_code, skill_type) ==
    DictMerge(p, << <<"skill", CodeType(skill_code, skill_type)>> >>)

add_by_keyword(p, kwargs) == DictMerge(p, kwargs)

add_impact_region(p, impact_region, impact_region_type) ==
    DictMerge(p, << <<"impactRegion", CodeType(impact_region, impact_region_type)>> >>)

add_event_region(p, event_region, event_region_type) ==
    DictMerge(p, << <<"eventRegion", CodeType(event_region, event_region_type)>> >>)

add_rti_filter(p, field, key, filtertype) ==
    DictMerge(p, << <<"filters",
                      JList(<<JDict(<< <<"field", field>>, <<"key", key>>,
                                       <<"filterType", filtertype>> >>)>>)>> >>)

add_rti_filter_empty(p) == DictMerge(p, << <<"filters", JList(<<>>)>> >>)

\* nest_payload keeping the keys of the old payload beside the new one.
nest_payload_Beside(p, nest_key) == DictMerge(p, << <<nest_key, JDict(p)>> >>)

nest_payload(p, nest_key) == << <<nest_key, JDict(p)>> >>

\* The add operation `call` applied to the payload p.
AddOperation(call, p) ==
    LET x == call.positional
    IN CASE call.fn = "PayloadConstructor.add_region" -> add_region(p, x[1], x[2])
         [] call.fn = "PayloadConstructor.add_regions" -> add_regions(p, x[1], x[2])
         [] call.fn = "PayloadConstructor.add_regionFilter" -> add_regionFilter(p, x[1], x[2])
         [] call.fn = "PayloadConstructor.add_occupation" -> add_occupation(p, x[1], x[2])
         [] call.fn = "PayloadConstructor.add_occupations" -> add_occupations(p, x[1], x[2])
         [] call.fn = "PayloadConstructor.add_rti_occupation" ->
                add_rti_occupation(p, x[1], x[2])
         [] call.fn = "PayloadConstructor.add_industry" -> add_industry(p, x[1], x[2])
         [] call.fn = "PayloadConstructor.add_cip" -> add_cip(p, x[1], x[2])
         [] call.fn = "PayloadConstructor.add_cipsoc" -> add_cipsoc(p, x[1], x[2])
         [] call.fn = "PayloadConstructor.add_skill" -> add_skill(p, x[1], x[2])
         [] call.fn = "PayloadConstructor.add_by_keyword" -> add_by_keyword(p, call.kwargs)
         [] call.fn = "PayloadConstructor.add_impact_region" ->
                add_impact_region(p, x[1], x[2])
         [] call.fn = "PayloadConstructor.add_event_region" ->
                add_event_region(p, x[1], x[2])
         [] call.fn = "PayloadConstructor.add_rti_filter" ->
                add_rti_filter(p, x[1], x[2], x[3])
         [] call.fn = "PayloadConstructor.add_rti_filter_empty" -> add_rti_filter_empty(p)

send_to_json(p) == JsonDumps(JDict(p))

(***************************************************************************)
(* EqRequest                                                               *)
(***************************************************************************)
\* str(x) as an f-string formats a type filter: an int or a list of ints.
PyStr(x) ==
    IF x.t = "list"
    THEN "[" \o JoinStrings([i \in 1..Len(x.v) |-> ToString(x.v[i].v)], ", ") \o "]"
    ELSE ToString(x.v)

\* The request send_request prepares.
PreparedRequest(auth_token, method, target, type_filter, data) ==
    [method |-> method,
     url |-> "http://jobseq.eqsuite.com/api/External/" \o target
             \o (IF Truthy(type_filter) THEN "?type=" \o PyStr(type_filter) ELSE ""),
     headers |-> << <<"Authorization", "Bearer " \o auth_token>>,
                    <<"Content-Type", "application/json">> >>,
     data |-> data]

\* Sent trying a second time after an exception or a 401.
Sent_Retry(request, reply) ==
    IF reply.kind = "exception" \/ reply.response.status_code = 401
    THEN <<request, request>>
    ELSE <<request>>

\* What send_request puts on the wire: session.send(request) is called
\* once, whatever comes back.
Sent(request, reply) == <<request>>

\* The except clauses, in order: the line printed for a transport
\* exception they catch; an exception they do not catch goes on to the
\* caller.  ConnectTimeout is a ConnectionError and a Timeout.
Caught(exc) ==
    exc \in {"HTTPError", "ConnectionError", "ConnectTimeout", "Timeout",
             "RequestException"}

ExceptLine(exc) ==
    CASE exc = "HTTPError" -> "Http Error: " \o exc
      [] exc \in {"ConnectionError", "ConnectTimeout"} -> "Error Connecting: " \o exc
      [] exc = "Timeout" -> "Timeout Error: " \o exc
      [] OTHER -> "Other Error " \o exc

\* StatusCheck raising for the error statuses only.
StatusCheck_ErrorsOnly(response) ==
    IF response.status_code = 401
    THEN RaiseMsg("HTTPError", "Code " \o ToString(response.status_code) \o ": Bad Token")
    ELSE IF response.status_code >= 400
    THEN RaiseMsg("HTTPError", ToString(response.status_code) \o ": Bad Request")
    ELSE Return(response)

\* The status test that ends send_request.
StatusCheck(response) ==
    IF response.status_code = 401
    THEN RaiseMsg("HTTPError", "Code " \o ToString(response.status_code) \o ": Bad Token")
    ELSE IF response.status_code # 200
    THEN RaiseMsg("HTTPError", ToString(response.status_code) \o ": Bad Request")
    ELSE Return(response)

\* SendOutcome returning None after an exception it caught.
SendOutcome_NoneAfterCaught(reply) ==
    IF reply.kind = "response" THEN StatusCheck(reply.response)
    ELSE IF Caught(reply.exc) THEN Return(None)
    ELSE Raise(reply.exc)

\* How send_request ends, given what session.send did: `reply` is a
\* response or a raised exception.  After a caught exception the name
\* `response` is unbound when its status is read.
SendOutcome(reply) ==
    IF reply.kind = "response" THEN StatusCheck(reply.response)
    ELSE IF Caught(reply.exc) THEN Raise("UnboundLocalError")
    ELSE Raise(reply.exc)

SendPrinted(reply) ==
    IF reply.kind = "exception" /\ Caught(reply.exc) THEN <<ExceptLine(reply.exc)>>
    ELSE <<>>

\* The request get_token prepares.
TokenRequest(username, password) ==
    [method |-> "POST",
     url |-> "http://jobseq.eqsuite.com/token",
     headers |-> << <<"Content-Type", "application/x-www-form-urlencoded;charset=UTF-8">> >>,
     data |-> JStr("grant_type=password&username=" \o username
                   \o "&password=" \o password)]

\* How get_token ends: an exception of session.send goes on to the caller,
\* the status is not looked at, and the content must decode to an object
\* with an "access_token".
get_token(reply) ==
    IF reply.kind = "exception" THEN Raise(reply.exc)
    ELSE LET decoded == JsonLoads(reply.response.content)
         IN IF decoded.kind = "raise" THEN decoded
            ELSE IF "access_token" \notin DOMAIN decoded.value THEN Raise("KeyError")
            ELSE Return(decoded.value.access_token)

\* run_analytic and run_v2_analytic after send_request: json.loads of the
\* response's content.
Decoded(outcome) ==
    IF outcome.kind = "raise" THEN outcome ELSE JsonLoads(outcome.value.content)

(***************************************************************************)
(* JobsEqConnection                                                        *)
(***************************************************************************)
\* JobsEqConnection handing RtiAnalytics an empty token.
JobsEqConnection_RtiWithout(token) ==
    [t |-> "JobsEqConnection", token |-> token,
     core |-> [token |-> token], api |-> [token |-> token],
     industry_occupation_mix |-> [token |-> token],
     labor_wage_trends |-> [token |-> token], supply_chain |-> [token |-> token],
     demographic_profile |-> [token |-> token], skill_gaps |-> [token |-> token],
     maps |-> [token |-> token], economic_impact |-> [token |-> token],
     awards_gap |-> [token |-> token], rti |-> [token |-> ""],
     datafetch |-> [token |-> token]]

\* The connection __init__ builds around the token: every analytic group
\* is constructed with self.token.
JobsEqConnection(token) ==
    [t |-> "JobsEqConnection", token |-> token,
     core |-> [token |-> token], api |-> [token |-> token],
     industry_occupation_mix |-> [token |-> token],
     labor_wage_trends |-> [token |-> token], supply_chain |-> [token |-> token],
     demographic_profile |-> [token |-> token], skill_gaps |-> [token |-> token],
     maps |-> [token |-> token], economic_impact |-> [token |-> token],
     awards_gap |-> [token |-> token], rti |-> [token |-> token],
     datafetch |-> [token |-> token]]

(***************************************************************************)
(* RtiFilter and the RTI endpoints                                         *)
(***************************************************************************)
\* The body RtiFilter.__repr__ dumps.
RtiFilterBody(filter) ==
    << <<"filters", JList(<<JDict(<<<<"field", filter.field>>, <<"key", filter.key>>,
                                    <<"filterType", filter.filtertype>>>>)>>)>> >>

RtiFilter_repr(filter) == JsonDumps(JDict(RtiFilterBody(filter)))

\* FilterList assigning each filter instead of appending it.
FilterList_LastOnly(rti_filters) ==
    IF rti_filters = <<>> THEN <<>>
    ELSE LET last == rti_filters[Len(rti_filters)]
         IN <<JDict(<<<<"field", last.field>>, <<"key", last.key>>,
                      <<"filterType", last.filtertype>>>>)>>

\* The loop that fills filter_obj["filters"], the same in the four
\* endpoints.
RECURSIVE FilterList(_)
FilterList(rti_filters) ==
    IF rti_filters = <<>> THEN <<>>
    ELSE <<JDict(<<<<"field", rti_filters[1].field>>, <<"key", rti_filters[1].key>>,
                   <<"filterType", rti_filters[1].filtertype>>>>)>>
         \o FilterList(Tail(rti_filters))

\* filter_obj: rti_filters is None or a list of RtiFilter objects.
FilterObj(rti_filters) ==
    << <<"filters", JList(IF Truthy(rti_filters) THEN FilterList(rti_filters.v)
                          ELSE <<>>)>> >>

JobPostingsPayload(a) ==
    add_by_keyword(
        DictMerge(add_regions(PayloadConstructor_init, a.region, a.region_type),
                  FilterObj(a.rti_filters)),
        << <<"excludeStaffing", a.excludeStaffing>>, <<"freetext", a.freetext>>,
           <<"timeframe", a.timeframe>>, <<"postState", a.postState>>,
           <<"start", a.start>>, <<"end", a.end>>,
           <<"startRecord", a.startRecord>>, <<"endRecord", a.endRecord>> >>)

JobPostingsOverTimePayload(a) ==
    add_by_keyword(
        DictMerge(add_regions(PayloadConstructor_init, a.region, a.region_type),
                  FilterObj(a.rti_filters)),
        << <<"freetext", a.freetext>>, <<"timeframe", a.timeframe>>,
           <<"postState", a.postState>>, <<"start", a.start>>, <<"end", a.end>>,
           <<"interval", a.interval>>, <<"adType", a.adType>> >>)

JobPostingWagesPayload(a) ==
    add_by_keyword(
        DictMerge(add_regions(PayloadConstructor_init, a.region, a.region_type),
                  FilterObj(a.rti_filters)),
        << <<"postState", a.postState>>, <<"start", a.start>>, <<"end", a.end>> >>)

ResumesPayload(a) ==
    add_by_keyword(
        DictMerge(
            add_regions(
                nest_payload(
                    add_by_keyword(PayloadConstructor_init,
                                   << <<"entryWages", a.entryWages>>,
                                      <<"experiencedWages", a.experiencedWages>>,
                                      <<"wageType", a.wageType>> >>),
                    "options"),
                a.region, a.region_type),
            FilterObj(a.rti_filters)),
        << <<"includeSummary", a.includeSummary>>, <<"freetext", a.freetext>>,
           <<"locationMode", a.locationMode>> >>)

(***************************************************************************)
(* Endpoints of compound.py and core.py that run an analytic by its id     *)
(***************************************************************************)
\* EventRegionGiven asking for both the region and its type.
EventRegionGiven_Both(a) == a.event_region # None /\ a.event_region_type # None

\* event_region is not None or event_region_type is not None
EventRegionGiven(a) == a.event_region # None \/ a.event_region_type # None

\* The payload of EconomicImpactCompound.employment and sales_output, which
\* differ in eventSizeType.
EconomicImpactPayload(a, eventSizeType) ==
    LET impact == add_impact_region(PayloadConstructor_init, a.impact_region,
                                    a.impact_region_type)
        event == IF EventRegionGiven(a)
                 THEN add_event_region(impact, a.event_region, a.event_region_type)
                 ELSE impact
    IN add_by_keyword(add_industry(event, a.ind_code, a.ind_type),
                      << <<"eventSize", a.eventSize>>,
                         <<"eventSizeType", JStr(eventSizeType)>> >>)

OccupationMixPayload(a) ==
    add_by_keyword(
        nest_payload(
            add_by_keyword(
                add_occupation(add_region(PayloadConstructor_init, a.region, a.region_type),
                               a.soc_code, a.soc_type),
                << <<"years", a.years>>, <<"model", a.model>> >>),
            "indDist"),
        << <<"queryType", JStr("IndDist")>>, <<"datasetKey", JStr("OccDist")>> >>)

WhatIfPayload(a) ==
    add_by_keyword(
        nest_payload(
            add_by_keyword(
                add_industry(add_regions(PayloadConstructor_init, a.region, a.region_type),
                             a.ind_code, a.ind_type),
                << <<"firmSize", a.firm_size>>, <<"type", a.expansion_contraction>> >>),
            "whatIf"),
        << <<"mode", JStr("WhatIf")>> >>)

\* The target run_analytic posts to.
RunAnalyticTarget(analytic_id) == "runanalytic?id=" \o analytic_id

(***************************************************************************)
(* DfField and DataFetch.occupation                                        *)
(***************************************************************************)
\* DfFieldBody adding the offset whenever one was given, zero included.
DfFieldBody_OffsetGiven(f) ==
    << <<"field", f.field>>,
       <<"timePoints",
         JList(<<JDict(<< <<"date", f.date>>, <<"interval", f.interval>> >>
                       \o (IF f.offset # None THEN << <<"offset", f.offset>> >>
                           ELSE <<>>))>>)>> >>

\* The body DfField.__repr__ dumps.
DfFieldBody(f) ==
    << <<"field", f.field>>,
       <<"timePoints",
         JList(<<JDict(<< <<"date", f.date>>, <<"interval", f.interval>> >>
                       \o (IF Truthy(f.offset) THEN << <<"offset", f.offset>> >>
                           ELSE <<>>))>>)>> >>

DfField_repr(f) == JsonDumps(JDict(DfFieldBody(f)))

add_df_regions(p, region, region_type, sub_region_level) ==
    DictMerge(p, << <<"regions",
        JList(<<JDict(<< <<"parent", JDict(<< <<"code", region>>, <<"type", region_type>> >>)>>,
                         <<"level", IF ~Truthy(sub_region_level) THEN region_type
                                    ELSE sub_region_level>> >>)>>)>> >>)

add_df_occupations(p, soc_code, soc_type, sub_soc_level) ==
    DictMerge(p, << <<"occupations",
        JList(<<JDict(<< <<"parent", JDict(<< <<"code", soc_code>>, <<"type", soc_type>> >>)>>,
                         <<"level", IF ~Truthy(sub_soc_level) THEN soc_type
                                    ELSE sub_soc_level>> >>)>>)>> >>)

\* body["timePoints"][0]["offset"] = offset
SetOffset(body, offset) ==
    IF ~DictHas(body, "timePoints") THEN Raise("KeyError")
    ELSE IF DictGet(body, "timePoints").v = <<>> THEN Raise("IndexError")
    ELSE LET points == DictGet(body, "timePoints").v
         IN Return(JDict(DictSet(body, "timePoints",
                JList(<<JDict(DictSet(points[1].v, "offset", offset))>>
                      \o Tail(points)))))

\* The body of the loop over `fields` in DataFetch.occupation.  Both
\* bodies it builds are keyed "timepoints"; the offset is stored through
\* body["timePoints"], a key neither body has.
OccupationField(filter) ==
    LET first == << <<"field", filter.field>>,
                    <<"timepoints", JList(<<JDict(<< <<"date", filter.date>>,
                                                    <<"interval", filter.interval>> >>)>>)>> >>
        second == << <<"field", filter.field>>, <<"timepoints", JList(<<>>)>> >>
        body == IF ~Truthy(filter.date) \/ ~Truthy(filter.interval) THEN second ELSE first
    IN IF Truthy(filter.offset) THEN SetOffset(body, filter.offset)
       ELSE Return(JDict(body))

\* The loop: the entries appended to filter_obj["fields"], or the error
\* that ends the loop.
RECURSIVE OccupationFields(_)
OccupationFields(fields) ==
    IF fields = <<>> THEN Return(<<>>)
    ELSE LET body == OccupationField(fields[1])
             rest == OccupationFields(Tail(fields))
         IN IF body.kind = "raise" THEN body
            ELSE IF rest.kind = "raise" THEN rest
            ELSE Return(<<body.value>> \o rest.value)

\* The constructor's payload before the loop over `fields`.
OccupationParents(a) ==
    add_df_occupations(
        add_df_regions(DataFetchConstructor_init, a.region, a.region_type,
                       a.sub_region_level),
        a.soc_code, a.soc_type, a.sub_soc_level)

\* The payload DataFetch.occupation sends; `entries` are the entries of
\* filter_obj["fields"].
OccupationPayload(a, entries) ==
    DictMerge(DictMerge(OccupationParents(a), << <<"fields", JList(entries)>> >>),
              << <<"pageKey", a.pageKey>>, <<"pageSize", a.pageSize>> >>)

NaN == [t |-> "nan"]

\* The keys of a list of records, each once, in the order they first appear.
RECURSIVE RecordKeys(_, _)
RecordKeys(records, seen) ==
    IF records = <<>> THEN seen
    ELSE LET keys == DictKeys(records[1].v)
             new == SelectSeq(keys, LAMBDA k : \A i \in 1..Len(seen) : seen[i] # k)
         IN RecordKeys(Tail(records), seen \o new)

\* pd.DataFrame.from_dict(records) for a list of dicts: one row per record,
\* one column per key, NaN where a record lacks the key.
FromRecords(records) ==
    LET keys == RecordKeys(records, <<>>)
    IN Return(Frame([c \in 1..Len(keys) |-> JStr(keys[c])],
                    Len(records),
                    [c \in 1..Len(keys) |->
                        [r \in 1..Len(records) |->
                            IF DictHas(records[r].v, keys[c])
                            THEN DictGet(records[r].v, keys[c]) ELSE NaN]]))

\* OccupationResult refusing frames, as the docstring of
\* DataFetch.occupation announces.
OccupationResult_NotImplemented(response, as_frame) ==
    IF "data" \notin DOMAIN response THEN Raise("KeyError")
    ELSE IF as_frame THEN Raise("NotImplementedError")
    ELSE Return(JList(response.data))

\* What DataFetch.occupation makes of the decoded reply.
OccupationResult(response, as_frame) ==
    IF "data" \notin DOMAIN response THEN Raise("KeyError")
    ELSE IF as_frame THEN FromRecords(response.data)
    ELSE Return(JList(response.data))

(***************************************************************************)
(* ApiSpecificTools.list_availible_schools                                 *)
(***************************************************************************)
\* The target of the request: both arguments formatted into the query.
SchoolsTarget(region_type, region_code) ==
    "SchoolsForRegion?type=" \o PyStr(region_type) \o "&code=" \o region_code.v

\* pd.DataFrame.from_dict(data) for what json.loads can return, with
\* orient="columns": DataFrame(data).  null, an empty list and an empty
\* object give an empty frame; a list of objects one row per object; a list
\* of scalars one column labelled 0; an object of lists one column per
\* member; an object of scalars is refused for want of an index, and so is
\* a string, a number or a boolean.
DataFrameFromDict(data) ==
    CASE data.t = "null" -> Return(Frame(<<>>, 0, <<>>))
      [] data.t = "list" ->
            IF data.v = <<>> THEN Return(Frame(<<>>, 0, <<>>))
            ELSE IF \A i \in 1..Len(data.v) : IsDict(data.v[i]) THEN FromRecords(data.v)
            ELSE Return(Frame(<<JInt(0)>>, Len(data.v), <<data.v>>))
      [] data.t = "dict" ->
            IF \A i \in 1..Len(data.v) : data.v[i][2].t = "list"
            THEN FromDict([i \in 1..Len(data.v) |-> <<data.v[i][1], data.v[i][2].v>>])
            ELSE Raise("ValueError")
      [] OTHER -> Raise("ValueError")

\* The body after send_request: `response` is how send_request ended.
\* With as_frame the frame is built and dropped; the reply is decoded again
\* for the return.
list_availible_schools(response, as_frame) ==
    IF response.kind = "raise" THEN response
    ELSE LET decoded == JsonLoads(response.value.content)
         IN IF ~as_frame \/ decoded.kind = "raise" THEN decoded
            ELSE IF DataFrameFromDict(decoded.value).kind = "raise"
            THEN DataFrameFromDict(decoded.value)
            ELSE decoded

(***************************************************************************)
(* Replies of the service.  The parsers take the decoded reply: the        *)
(* endpoints hand them json.loads(response.content).                       *)
(***************************************************************************)
ColumnNames == {JStr("A"), JStr("B"), JStr(""), None}

CoreCells ==
    { JStr("x"),
      JDict(<<<<"displayText", JStr("dt")>>, <<"displayValue", JStr("dv")>>,
              <<"code", JStr("cd")>>>>),
      JDict(<<<<"displayValue", JStr("dv")>>, <<"code", JStr("cd")>>>>),
      JDict(<<<<"code", JStr("cd")>>>>),
      JDict(<<<<"value", JInt(1)>>>>) }

MapsCells ==
    { JStr("x"),
      JDict(<<<<"displayText", JStr("dt")>>, <<"code", JStr("cd")>>>>),
      JDict(<<<<"code", JStr("cd")>>>>),
      JDict(<<<<"displayValue", JStr("dv")>>>>),
      JDict(<<<<"value", JDict(<<<<"displayText", JStr("dt")>>>>)>>>>) }

TitleCaptions == {JStr("Title"), None}

\* Rows have one cell per column, or one cell less.
RowsOf(Cells, ncols) ==
    [1..ncols -> Cells] \cup (IF ncols > 0 THEN [1..(ncols - 1) -> Cells] ELSE {})

RowLimit(ncols) == IF ncols = 0 THEN MaxRows ELSE Min(MaxRows, MaxCells \div ncols)

\* A table reply: its columns and its rows.
Table(names, rows) ==
    [columns |-> [i \in 1..Len(names) |-> [name |-> names[i]]], rows |-> rows]

\* Table replies wider than MaxCols: any names, and no row or one row
\* holding the number of each column.
WideTables ==
    UNION { { Table(names, <<>>), Table(names, <<[i \in 1..Len(names) |-> JInt(i)]>>) } :
            names \in UNION { [1..n -> ColumnNames] : n \in (MaxCols + 1)..MaxWide } }

\* A map reply: the table under map.map, beside the caption.
MapReply(tb, titleCaption) ==
    [map |-> [map |-> [columns |-> tb.columns, rows |-> tb.rows,
                       titleCaption |-> titleCaption]]]

\* Rows of a demographic section; the last one has no displayText.
DemoRows ==
    { <<JDict(<<<<"displayText", JStr("Male")>>>>), JStr("49%"),
        JDict(<<<<"value", JInt(49)>>>>)>>,
      <<JDict(<<<<"displayText", JStr("Female")>>>>), JStr("51%"),
        JDict(<<<<"value", JInt(51)>>>>)>>,
      <<JDict(<<<<"code", JStr("M")>>>>), JStr("0%"),
        JDict(<<<<"value", JInt(0)>>>>)>> }

\* Data points of a chart series; the last one has no value.
TrendPoints ==
    { <<JInt(1000), JInt(10)>>, <<JInt(2000), JInt(20)>>, <<JInt(3000)>> }

ChartSubTitles == {None, JList(<<>>), JList(<<JStr("Total ")>>)}
ChartAxes == {None, JDict(<<>>), JDict(<<<<"title", JStr("Employment")>>>>)}
ChartTitles == {None, JStr("Date"), JStr("Wages")}

\* response["chart"]: a member drawn as None is absent.
Chart(subTitle, yAxis, title, series) ==
    JDict((IF subTitle = None THEN <<>> ELSE << <<"subTitle", subTitle>> >>)
          \o (IF yAxis = None THEN <<>> ELSE << <<"yAxis", yAxis>> >>)
          \o (IF title = None THEN <<>> ELSE << <<"title", title>> >>)
          \o << <<"series", JList(series)>> >>)

OtherSeries == [data |-> << <<JInt(1000), JInt(99)>> >>]

\* Records of a v2 reply: two alike, one with its keys the other way
\* round, one without "title", one with a key more.
V2Records ==
    { JDict(<<<<"id", JInt(1)>>, <<"title", JStr("a")>>>>),
      JDict(<<<<"id", JInt(2)>>, <<"title", JStr("b")>>>>),
      JDict(<<<<"title", JStr("c")>>, <<"id", JInt(3)>>>>),
      JDict(<<<<"id", JInt(4)>>>>),
      JDict(<<<<"id", JInt(5)>>, <<"title", JStr("e")>>, <<"url", JStr("u")>>>>) }

OverTimeRecords ==
    { JDict(<<<<"date", JInt(1000)>>, <<"count", JInt(7)>>>>),
      JDict(<<<<"date", JInt(2000)>>, <<"count", JInt(8)>>>>),
      JDict(<<<<"count", JInt(9)>>>>) }

ResumeCategories == <<"Certifications", "Education", "Skills", "Employers">>

ResumeRows ==
    { [label |-> JStr("Unclassified"), count |-> JInt(5), entryWages |-> JInt(50)],
      [label |-> JStr("Nursing"), count |-> JInt(3), entryWages |-> JInt(30)],
      [label |-> JStr("Welding"), count |-> JInt(4), entryWages |-> JInt(40)] }

\* Items of a list reply; the third repeats the code of the first.
ListItems ==
    { JDict(<<<<"c", JStr("01")>>, <<"t", JInt(1)>>, <<"d", JStr("Alpha")>>>>),
      JDict(<<<<"c", JStr("02")>>, <<"t", JInt(2)>>, <<"d", JStr("Beta")>>>>),
      JDict(<<<<"c", JStr("01")>>, <<"t", JInt(3)>>, <<"d", JStr("Gamma")>>>>),
      JDict(<<<<"id", JStr("7")>>, <<"name", JStr("Seven")>>>>),
      JDict(<<<<"id", JStr("8")>>, <<"name", JStr("Eight")>>>>) }

ListPrefixes == {"reg", "cip", "ana", "geo"}

(***************************************************************************)
(* What session.send can do: a response with some status, or an exception *)
(* of requests (HTTPError, ConnectionError, ConnectTimeout, Timeout, any  *)
(* other RequestException) or of another kind.                            *)
(***************************************************************************)
StatusCodes == {200, 201, 204, 400, 401, 404, 500}

TransportExceptions ==
    {"HTTPError", "ConnectionError", "ConnectTimeout", "Timeout", "RequestException",
     "KeyboardInterrupt"}

Response(status_code, content) ==
    [kind |-> "response", response |-> [status_code |-> status_code, content |-> content]]

Exception(exc) == [kind |-> "exception", exc |-> exc]

Tokens == {"token-1", "token-2"}

\* The objects of an analytic group an endpoint can be called on: the one
\* the connection holds, or, with no connection, one made from any token.
Analytics(group) ==
    IF cnxn = NoObject THEN {[token |-> t] : t \in Tokens} ELSE {cnxn[group]}

\* What the token endpoint can do: grant a token, refuse with an error
\* object or with bytes that are no JSON, or fail in transport.
TokenReplies ==
    {Response(200, [access_token |-> t]) : t \in Tokens}
    \cup {Response(400, [error |-> "invalid_grant"]), Response(500, Garbage),
          Exception("ConnectionError")}

\* The replies an endpoint can get: status 200 with one of `contents` or
\* with bytes that are no JSON, an error status, or an exception.
EndpointReplies(contents) ==
    {Response(200, c) : c \in contents \cup {Garbage}}
    \cup {Response(401, Garbage), Response(500, Garbage)}
    \cup {Exception("ConnectionError"), Exception("KeyboardInterrupt")}

V2Contents ==
    { [data |-> <<>>],
      [data |-> <<JDict(<<<<"id", JInt(1)>>, <<"title", JStr("a")>>>>)>>],
      [data |-> <<JDict(<<<<"id", JInt(1)>>, <<"title", JStr("a")>>>>),
                  JDict(<<<<"id", JInt(2)>>, <<"title", JStr("b")>>>>)>>] }

OverTimeContents ==
    { [data |-> <<>>],
      [data |-> <<[series |-> <<JDict(<<<<"date", JInt(1000)>>, <<"count", JInt(7)>>>>),
                                JDict(<<<<"date", JInt(2000)>>, <<"count", JInt(8)>>>>)>>]>>] }

ResumeContents ==
    { [tables |-> <<>>],
      [tables |-> <<[category |-> JStr("Education"),
                     rows |-> <<[label |-> JStr("Unclassified"), count |-> JInt(5),
                                 entryWages |-> JInt(50)],
                                [label |-> JStr("Nursing"), count |-> JInt(3),
                                 entryWages |-> JInt(30)]>>]>>] }

\* Calls of the add operations of a PayloadConstructor.  add_region comes
\* with two regions and add_by_keyword with keyword sets that name a key
\* of their own, the key of add_region and the key of a nesting.
CodeTypeMethods ==
    {"PayloadConstructor.add_regions", "PayloadConstructor.add_regionFilter",
     "PayloadConstructor.add_occupation", "PayloadConstructor.add_occupations",
     "PayloadConstructor.add_rti_occupation", "PayloadConstructor.add_industry",
     "PayloadConstructor.add_cip", "PayloadConstructor.add_cipsoc",
     "PayloadConstructor.add_skill", "PayloadConstructor.add_impact_region",
     "PayloadConstructor.add_event_region"}

AddCalls ==
    {[fn |-> m, positional |-> <<JStr("0"), JInt(10)>>, kwargs |-> <<>>] :
        m \in CodeTypeMethods}
    \cup {[fn |-> "PayloadConstructor.add_region",
           positional |-> <<JStr(r), JInt(4)>>, kwargs |-> <<>>] : r \in {"1", "51"}}
    \cup {[fn |-> "PayloadConstructor.add_rti_filter",
           positional |-> <<JStr("occ"), JStr("11-1010"), JStr("Is")>>, kwargs |-> <<>>],
          [fn |-> "PayloadConstructor.add_rti_filter_empty",
           positional |-> <<>>, kwargs |-> <<>>]}
    \cup {[fn |-> "PayloadConstructor.add_by_keyword", positional |-> <<>>, kwargs |-> kw] :
            kw \in { << <<"mode", JStr("WhatIf")>> >>,
                     << <<"years", JStr("10")>>, <<"region", JStr("x")>> >>,
                     << <<"whatIf", JInt(1)>> >> }}

NestKeys == {"whatIf", "region"}

\* DfField objects: a field with or without date, interval and offset.
DfFields ==
    [field : {JStr("empl_placeOfWork")}, date : {None, JStr("2020-01-01")},
     interval : {None, JStr("Quarterly")}, offset : {None, JInt(0), JInt(1)}]

\* The DfField objects passed to DataFetch.occupation: the default one, one
\* with an offset, one with an offset of zero and no time point, one with
\* a date only.
RequestedFields ==
    { [field |-> JStr("empl_placeOfWork"), date |-> JStr("2020-01-01"),
       interval |-> JStr("Quarterly"), offset |-> None],
      [field |-> JStr("empl_placeOfWork"), date |-> JStr("2020-01-01"),
       interval |-> JStr("Quarterly"), offset |-> JInt(1)],
      [field |-> JStr("empl_placeOfWork"), date |-> None,
       interval |-> None, offset |-> JInt(0)],
      [field |-> JStr("empl_placeOfWork"), date |-> JStr("2020-01-01"),
       interval |-> None, offset |-> None] }

\* The `fields` argument: a list of DfField objects, or None.
DfFieldArgs == {None} \cup {JList(fs) : fs \in SeqsUpTo(RequestedFields, MaxFields)}

\* Decoded replies of runanalytic: a table of plain cells, a table with
\* wrapped cells, and a table with a cell core_analytic refuses.
CoreContents ==
    { [table |-> Table(<<JStr("A")>>, << <<JStr("x")>> >>)],
      [table |-> Table(<<JStr("A"), JStr("B")>>,
                       << <<JDict(<< <<"displayText", JStr("dt")>> >>), JInt(1)>> >>)],
      [table |-> Table(<<JStr("A")>>, << <<JDict(<< <<"value", JInt(1)>> >>)>> >>)] }

\* Decoded replies of Datafetch/Occupation: records alike, records with
\* different keys, no record, and a reply without "data".
DataFetchContents ==
    { [data |-> <<>>],
      [data |-> <<JDict(<< <<"region", JStr("0")>>, <<"value", JInt(1)>> >>),
                  JDict(<< <<"region", JStr("1")>>, <<"value", JInt(2)>> >>)>>],
      [data |-> <<JDict(<< <<"region", JStr("0")>> >>),
                  JDict(<< <<"value", JInt(2)>>, <<"region", JStr("1")>> >>)>>],
      [message |-> JStr("An error has occurred.")] }

\* Decoded replies of SchoolsForRegion: lists of schools, an empty list,
\* a list of names, an object of lists, an error object, a string, null.
SchoolsContents ==
    { JList(<<JDict(<< <<"id", JInt(1)>>, <<"name", JStr("Alpha")>> >>),
              JDict(<< <<"id", JInt(2)>>, <<"name", JStr("Beta")>> >>)>>),
      JList(<<JDict(<< <<"id", JInt(1)>>, <<"name", JStr("Alpha")>> >>),
              JDict(<< <<"id", JInt(2)>> >>)>>),
      JList(<<>>),
      JList(<<JStr("Alpha"), JStr("Beta")>>),
      JDict(<< <<"id", JList(<<JInt(1), JInt(2)>>)>>,
               <<"name", JList(<<JStr("Alpha"), JStr("Beta")>>)>> >>),
      JDict(<< <<"message", JStr("An error has occurred.")>> >>),
      JStr("No schools found."),
      None }

\* RtiFilter objects; the last is RtiFilter() with its defaults.
RtiFilters ==
    { [field |-> JStr("occ"), key |-> JStr("11-1010"), filtertype |-> JStr("Is")],
      [field |-> JStr("ind"), key |-> JStr("62"), filtertype |-> JStr("Contains")],
      [field |-> None, key |-> None, filtertype |-> None] }

\* The rti_filters argument: None (the default) or a list of filters.
RtiFilterArgs == {None} \cup {JList(fs) : fs \in SeqsUpTo(RtiFilters, MaxFilters)}

(***************************************************************************)
(* The calls.                                                              *)
(***************************************************************************)
Init ==
    /\ pc = "idle"
    /\ fn = "none"
    /\ args = <<>>
    /\ ret = NoOutcome
    /\ payload = <<>>
    /\ requests = <<>>
    /\ replies = <<>>
    /\ printed = <<>>
    /\ cnxn = NoObject
    /\ constructor = NoObject
    /\ calls = <<>>

\* A parser is a pure function of its arguments: nothing goes over the wire.
ParseCall(name, a, outcome) ==
    /\ pc' = "done"
    /\ fn' = name
    /\ args' = a
    /\ ret' = outcome
    /\ UNCHANGED <<payload, requests, replies, printed, cnxn, constructor, calls>>

CallCoreAnalytic ==
    /\ pc = "idle"
    /\ \/ \E n \in 0..MaxCols : \E names \in [1..n -> ColumnNames] :
          \E k \in 0..RowLimit(n) : \E rows \in [1..k -> RowsOf(CoreCells, n)] :
          \E as_frame \in BOOLEAN :
              LET response == [table |-> Table(names, rows)]
              IN ParseCall("Parse.core_analytic",
                           [response |-> response, as_frame |-> as_frame],
                           core_analytic(response, as_frame))
       \/ \E tb \in WideTables, as_frame \in BOOLEAN :
              LET response == [table |-> tb]
              IN ParseCall("Parse.core_analytic",
                           [response |-> response, as_frame |-> as_frame],
                           core_analytic(response, as_frame))

CallMaps ==
    /\ pc = "idle"
    /\ \/ \E n \in 0..MaxCols : \E names \in [1..n -> ColumnNames] :
          \E k \in 0..RowLimit(n) : \E rows \in [1..k -> RowsOf(MapsCells, n)] :
          \E titleCaption \in TitleCaptions, as_frame \in BOOLEAN :
              LET response == MapReply(Table(names, rows), titleCaption)
              IN ParseCall("Parse.maps",
                           [response |-> response, as_frame |-> as_frame],
                           maps(response, as_frame))
       \/ \E tb \in WideTables, titleCaption \in TitleCaptions, as_frame \in BOOLEAN :
              LET response == MapReply(tb, titleCaption)
              IN ParseCall("Parse.maps",
                           [response |-> response, as_frame |-> as_frame],
                           maps(response, as_frame))

CallDemoCurrent ==
    /\ pc = "idle"
    /\ \E sections \in SeqsUpTo({[rows |-> rs] : rs \in SeqsUpTo(DemoRows, MaxRows)},
                                MaxGroups) :
       \E as_frame \in BOOLEAN :
           LET response == [table |-> [sections |-> sections]]
           IN ParseCall("Parse.demo_current",
                        [response |-> response, as_frame |-> as_frame],
                        demo_current(response, as_frame))

CallLaborWageTrends ==
    /\ pc = "idle"
    /\ \E subTitle \in ChartSubTitles, yAxis \in ChartAxes, title \in ChartTitles :
       \E data \in SeqsUpTo(TrendPoints, MaxRows) :
       \E series \in {<<>>, <<[data |-> data]>>, <<[data |-> data], OtherSeries>>} :
       \E as_frame \in BOOLEAN :
           LET response == [chart |-> Chart(subTitle, yAxis, title, series)]
           IN ParseCall("Parse.labor_wage_trends",
                        [response |-> response, as_frame |-> as_frame],
                        labor_wage_trends(response, as_frame))

CallV2Core ==
    /\ pc = "idle"
    /\ \E data \in SeqsUpTo(V2Records, MaxRows), as_frame \in BOOLEAN :
           LET response == [data |-> data]
           IN ParseCall("Parse.v2_core",
                        [response |-> response, as_frame |-> as_frame],
                        v2_core(response, as_frame))

CallV2CoreRtiOvertime ==
    /\ pc = "idle"
    /\ \E series \in SeqsUpTo(OverTimeRecords, MaxRows) :
       \E data \in {<<>>, <<[series |-> series]>>} :
       \E as_frame \in BOOLEAN :
           LET response == [data |-> data]
           IN ParseCall("Parse.v2_core_rti_overtime",
                        [response |-> response, as_frame |-> as_frame],
                        v2_core_rti_overtime(response, as_frame))

CallResumes ==
    /\ pc = "idle"
    /\ \E n \in 0..Min(MaxGroups, Len(ResumeCategories)) :
       \E rows \in [1..n -> SeqsUpTo(ResumeRows, MaxRows)] :
       \E as_frame \in BOOLEAN :
           LET results == [tables |-> [i \in 1..n |->
                              [category |-> JStr(ResumeCategories[i]), rows |-> rows[i]]]]
           IN ParseCall("Parse.resumes",
                        [results |-> results, as_frame |-> as_frame],
                        resumes(results, as_frame))

CallListAvailible ==
    /\ pc = "idle"
    /\ \E items \in SeqsUpTo(ListItems, MaxRows), prefix \in ListPrefixes :
       \E as_frame \in BOOLEAN :
           ParseCall("Parse.list_availible",
                     [unparsed_response |-> items, analytic_prefix |-> prefix,
                      as_frame |-> as_frame],
                     list_availible(items, prefix, as_frame))

CallTypeAvailible ==
    /\ pc = "idle"
    /\ \E items \in SeqsUpTo(ListItems, MaxRows), name \in {"industry", "occupation"} :
       \E as_frame \in BOOLEAN :
           ParseCall("Parse.type_availible",
                     [unparsed_response |-> items, analytic_name |-> name,
                      as_frame |-> as_frame],
                     type_availible(items, name, as_frame))

\* EqRequest.send_request: one request goes out, and the call ends as the
\* reply and the status test decide.
CallSendRequest ==
    /\ pc = "idle"
    /\ \E auth_token \in Tokens, method \in {"GET", "POST"} :
       \E target \in {"runanalytic?id=1", "JobPosts"} :
       \E type_filter \in {None, JInt(0), JInt(3), JList(<<JInt(1), JInt(2)>>)} :
       \E data \in {None, JStr("{}")} :
       \E reply \in {Response(c, Garbage) : c \in StatusCodes}
                    \cup {Exception(e) : e \in TransportExceptions} :
           /\ pc' = "done"
           /\ fn' = "EqRequest.send_request"
           /\ args' = [auth_token |-> auth_token, method |-> method, target |-> target,
                       type_filter |-> type_filter, data |-> data]
           /\ requests' = Sent(PreparedRequest(auth_token, method, target, type_filter,
                                                data), reply)
           /\ replies' = <<reply>>
           /\ printed' = SendPrinted(reply)
           /\ ret' = SendOutcome(reply)
           /\ UNCHANGED <<payload, cnxn, constructor, calls>>

\* repr() of an RtiFilter.
CallRtiFilterRepr ==
    /\ pc = "idle"
    /\ \E filter \in RtiFilters :
           /\ pc' = "done"
           /\ fn' = "RtiFilter.__repr__"
           /\ args' = [self |-> filter]
           /\ ret' = Return(RtiFilter_repr(filter))
           /\ UNCHANGED <<payload, requests, replies, printed, cnxn, constructor, calls>>

\* An RTI endpoint: the payload is built and dumped, run_v2_analytic posts
\* it to `target` with the token, and the decoded reply is parsed.
EndpointCall(name, a, p, target, reply, outcome) ==
    /\ pc' = "done"
    /\ fn' = name
    /\ args' = a
    /\ payload' = p
    /\ requests' = Sent(PreparedRequest(a.self.token, "POST", target, None,
                                        JStr(send_to_json(p))), reply)
    /\ replies' = <<reply>>
    /\ printed' = SendPrinted(reply)
    /\ ret' = outcome
    /\ UNCHANGED <<cnxn, constructor, calls>>

\* What run_v2_analytic hands to the parser: the decoded reply, or the error
\* that ended the call before the parser ran.
DecodedReply(reply) == Decoded(SendOutcome(reply))

\* cnxn = JobsEqConnection(username, password): the token is requested,
\* and the connection is built around it; when get_token raises, no
\* connection is made and `cnxn` stays what it was.
CallJobsEqConnection ==
    /\ pc = "idle"
    /\ \E username \in {"user"}, password \in {"secret"}, reply \in TokenReplies :
           /\ pc' = "done"
           /\ fn' = "JobsEqConnection.__init__"
           /\ args' = [username |-> username, password |-> password]
           /\ requests' = <<TokenRequest(username, password)>>
           /\ replies' = <<reply>>
           /\ printed' = <<>>
           /\ IF get_token(reply).kind = "raise"
              THEN ret' = get_token(reply) /\ cnxn' = cnxn
              ELSE /\ cnxn' = JobsEqConnection(get_token(reply).value)
                   /\ ret' = Return(cnxn')
           /\ UNCHANGED <<payload, constructor, calls>>

\* EqRequest.get_token
CallGetToken ==
    /\ pc = "idle"
    /\ \E username \in {"user"}, password \in {"secret"}, reply \in TokenReplies :
           /\ pc' = "done"
           /\ fn' = "EqRequest.get_token"
           /\ args' = [username |-> username, password |-> password]
           /\ requests' = <<TokenRequest(username, password)>>
           /\ replies' = <<reply>>
           /\ printed' = <<>>
           /\ ret' = get_token(reply)
           /\ UNCHANGED <<payload, cnxn, constructor, calls>>

\* PayloadConstructor(): the caller gets a constructor with an empty payload.
CallPayloadConstructor ==
    /\ pc = "idle"
    /\ pc' = "done"
    /\ fn' = "PayloadConstructor.__init__"
    /\ args' = <<>>
    /\ ret' = Return(None)
    /\ constructor' = PayloadConstructor(PayloadConstructor_init)
    /\ calls' = <<>>
    /\ UNCHANGED <<payload, requests, replies, printed, cnxn>>

\* An operation on the caller's constructor: its payload becomes
\* `after`.
ConstructorCall(name, a, after) ==
    /\ pc' = "done"
    /\ fn' = name
    /\ args' = a
    /\ ret' = Return(None)
    /\ constructor' = PayloadConstructor(after)
    /\ calls' = Append(calls, [fn |-> name, args |-> a, payload |-> after])
    /\ UNCHANGED <<payload, requests, replies, printed, cnxn>>

\* One of the add operations.
CallAdd ==
    /\ pc = "idle"
    /\ constructor # NoObject
    /\ Len(calls) < MaxCalls
    /\ \E call \in AddCalls :
           ConstructorCall(call.fn,
                           [self |-> constructor,
                            positional |-> call.positional, kwargs |-> call.kwargs],
                           AddOperation(call, constructor.payload))

CallNestPayload ==
    /\ pc = "idle"
    /\ constructor # NoObject
    /\ Len(calls) < MaxCalls
    /\ \E nest_key \in NestKeys :
           ConstructorCall("PayloadConstructor.nest_payload",
                           [self |-> constructor, nest_key |-> nest_key],
                           nest_payload(constructor.payload, nest_key))

\* What an endpoint returns that runs an analytic by its id and parses the
\* reply with Parse.core_analytic.
CoreOutcome(reply, as_frame) ==
    IF DecodedReply(reply).kind = "raise" THEN DecodedReply(reply)
    ELSE core_analytic(DecodedReply(reply).value, as_frame)

\* event_region and event_region_type, each given or left None.
EconomicImpactArgs(self, event_region, event_region_type, eventSize, as_frame) ==
    [self |-> self, impact_region |-> JStr("1"), impact_region_type |-> JInt(4),
     event_region |-> event_region, event_region_type |-> event_region_type,
     ind_code |-> JStr("31"), ind_type |-> JInt(2), eventSize |-> JStr(eventSize),
     as_frame |-> as_frame]

\* EconomicImpactCompound.employment: the payload is printed, then sent.
CallEmployment ==
    /\ pc = "idle"
    /\ \E self \in Analytics("economic_impact"), as_frame \in BOOLEAN :
       \E event_region \in {None, JStr("2")}, event_region_type \in {None, JInt(4)} :
       \E reply \in EndpointReplies(CoreContents) :
           LET a == EconomicImpactArgs(self, event_region, event_region_type, "140",
                                       as_frame)
               p == EconomicImpactPayload(a, "Employment")
           IN /\ pc' = "done"
              /\ fn' = "EconomicImpactCompound.employment"
              /\ args' = a
              /\ payload' = p
              /\ requests' =
                     Sent(PreparedRequest(self.token, "POST",
                              RunAnalyticTarget("58a2d8fc-bb40-4e4d-b78e-f719fa1a361e"),
                              None, JStr(send_to_json(p))), reply)
              /\ replies' = <<reply>>
              /\ printed' = <<send_to_json(p)>> \o SendPrinted(reply)
              /\ ret' = CoreOutcome(reply, as_frame)
              /\ UNCHANGED <<cnxn, constructor, calls>>

CallSalesOutput ==
    /\ pc = "idle"
    /\ \E self \in Analytics("economic_impact"), as_frame \in BOOLEAN :
       \E event_region \in {None, JStr("2")}, event_region_type \in {None, JInt(4)} :
       \E reply \in EndpointReplies(CoreContents) :
           LET a == EconomicImpactArgs(self, event_region, event_region_type, "20",
                                       as_frame)
           IN EndpointCall("EconomicImpactCompound.sales_output", a,
                           EconomicImpactPayload(a, "SaleOutput"),
                           RunAnalyticTarget("58a2d8fc-bb40-4e4d-b78e-f719fa1a361e"),
                           reply, CoreOutcome(reply, as_frame))

CallOccupationMix ==
    /\ pc = "idle"
    /\ \E self \in Analytics("industry_occupation_mix"), as_frame \in BOOLEAN :
       \E region \in {JStr("1"), JStr("51")} :
       \E reply \in EndpointReplies(CoreContents) :
           LET a == [self |-> self, region |-> region, region_type |-> JInt(4),
                     soc_code |-> JStr("11-1011"), soc_type |-> JInt(7),
                     years |-> JStr("10"), model |-> JInt(0), as_frame |-> as_frame]
           IN EndpointCall("IndustryOccupationMixCompound.occupation_mix", a,
                           OccupationMixPayload(a),
                           RunAnalyticTarget("fa6e2fbe-0f68-498e-80a6-55a6c1b020cd"),
                           reply, CoreOutcome(reply, as_frame))

CallWhatIf ==
    /\ pc = "idle"
    /\ \E self \in Analytics("core"), as_frame \in BOOLEAN :
       \E firm_size \in {JInt(100), JInt(0)} :
       \E reply \in EndpointReplies(CoreContents) :
           LET a == [self |-> self, region |-> JStr("0"), region_type |-> JInt(10),
                     ind_code |-> JStr("31"), ind_type |-> JInt(2),
                     firm_size |-> firm_size,
                     expansion_contraction |-> JStr("Expansion"), as_frame |-> as_frame]
           IN EndpointCall("CoreAnalytics.what_if", a, WhatIfPayload(a),
                           RunAnalyticTarget("8d554e48-8940-4d0f-958b-067c462340ca"),
                           reply, CoreOutcome(reply, as_frame))

\* repr() of a DfField.
CallDfFieldRepr ==
    /\ pc = "idle"
    /\ \E f \in DfFields :
           /\ pc' = "done"
           /\ fn' = "DfField.__repr__"
           /\ args' = [self |-> f]
           /\ ret' = Return(DfField_repr(f))
           /\ requests' = <<>>
           /\ replies' = <<>>
           /\ printed' = <<>>
           /\ UNCHANGED <<payload, cnxn, constructor, calls>>

\* DataFetch.occupation: the payload is built from the arguments; an error
\* in the loop over `fields` ends the call before anything is sent.
CallDataFetchOccupation ==
    /\ pc = "idle"
    /\ \E self \in Analytics("datafetch"), fields \in DfFieldArgs, as_frame \in BOOLEAN :
       \E reply \in EndpointReplies(DataFetchContents) :
           LET a == [self |-> self, region |-> JStr("0"), region_type |-> JInt(10),
                     sub_region_level |-> None, soc_code |-> JStr("00-0000"),
                     soc_type |-> JInt(0), sub_soc_level |-> JInt(2),
                     fields |-> fields, pageKey |-> None, pageSize |-> JInt(1000),
                     as_frame |-> as_frame]
               entries == IF Truthy(fields) THEN OccupationFields(fields.v)
                          ELSE Return(<<>>)
           IN IF entries.kind = "raise"
              THEN /\ pc' = "done"
                   /\ fn' = "DataFetch.occupation"
                   /\ args' = a
                   /\ payload' = OccupationParents(a)
                   /\ requests' = <<>>
                   /\ replies' = <<>>
                   /\ printed' = <<>>
                   /\ ret' = entries
                   /\ UNCHANGED <<cnxn, constructor, calls>>
              ELSE EndpointCall("DataFetch.occupation", a,
                                OccupationPayload(a, entries.value),
                                "Datafetch/Occupation", reply,
                                IF DecodedReply(reply).kind = "raise"
                                THEN DecodedReply(reply)
                                ELSE OccupationResult(DecodedReply(reply).value, as_frame))

CallJobPostings ==
    /\ pc = "idle"
    /\ \E self \in Analytics("rti"), rti_filters \in RtiFilterArgs, as_frame \in BOOLEAN :
       \E reply \in EndpointReplies(V2Contents) :
           LET a == [self |-> self, region |-> JStr("0"),
                     region_type |-> JInt(10), rti_filters |-> rti_filters,
                     excludeStaffing |-> JBool(FALSE), freetext |-> None,
                     timeframe |-> JStr("Last30Days"), postState |-> JStr("New"),
                     start |-> None, end |-> None, startRecord |-> JInt(0),
                     endRecord |-> JInt(20), as_frame |-> as_frame]
           IN EndpointCall("RtiAnalytics.job_postings", a, JobPostingsPayload(a),
                           "JobPosts", reply,
                           IF DecodedReply(reply).kind = "raise" THEN DecodedReply(reply)
                           ELSE v2_core(DecodedReply(reply).value, as_frame))

CallJobPostingsOverTime ==
    /\ pc = "idle"
    /\ \E self \in Analytics("rti"), rti_filters \in RtiFilterArgs, as_frame \in BOOLEAN :
       \E reply \in EndpointReplies(OverTimeContents) :
           LET a == [self |-> self, region |-> JStr("0"),
                     region_type |-> JInt(10), rti_filters |-> rti_filters,
                     freetext |-> None, timeframe |-> JStr("Last30Days"),
                     postState |-> JStr("New"), start |-> None, end |-> None,
                     interval |-> JStr("Daily"), adType |-> JStr("All"),
                     as_frame |-> as_frame]
           IN EndpointCall("RtiAnalytics.job_postings_over_time", a,
                           JobPostingsOverTimePayload(a),
                           "RealTimeIntelligenceOverTime", reply,
                           IF DecodedReply(reply).kind = "raise" THEN DecodedReply(reply)
                           ELSE v2_core_rti_overtime(DecodedReply(reply).value, as_frame))

CallJobPostingWages ==
    /\ pc = "idle"
    /\ \E self \in Analytics("rti"), rti_filters \in RtiFilterArgs, as_frame \in BOOLEAN :
       \E reply \in EndpointReplies(V2Contents) :
           LET a == [self |-> self, region |-> JStr("0"),
                     region_type |-> JInt(10), rti_filters |-> rti_filters,
                     postState |-> JStr("New"), start |-> JStr("2023-01-01"),
                     end |-> JStr("2023-02-01"), as_frame |-> as_frame]
           IN EndpointCall("RtiAnalytics.job_posting_wages", a,
                           JobPostingWagesPayload(a),
                           "RealTimeIntelligenceWages", reply,
                           IF DecodedReply(reply).kind = "raise" THEN DecodedReply(reply)
                           ELSE v2_core(DecodedReply(reply).value, as_frame))

CallRtiResumes ==
    /\ pc = "idle"
    /\ \E self \in Analytics("rti"), rti_filters \in RtiFilterArgs, as_frame \in BOOLEAN :
       \E reply \in EndpointReplies(ResumeContents) :
           LET a == [self |-> self, region |-> JStr("0"),
                     region_type |-> JInt(10), rti_filters |-> rti_filters,
                     includeSummary |-> JBool(TRUE), freetext |-> None,
                     locationMode |-> JInt(0), entryWages |-> JBool(TRUE),
                     experiencedWages |-> JBool(FALSE), wageType |-> JStr("Annual"),
                     as_frame |-> as_frame]
           IN EndpointCall("RtiAnalytics.resumes", a, ResumesPayload(a),
                           "Resumes", reply,
                           IF DecodedReply(reply).kind = "raise" THEN DecodedReply(reply)
                           ELSE resumes(DecodedReply(reply).value, as_frame))

\* The caller takes the outcome.  The objects it holds stay as they are;
\* so does the payload of the endpoint's constructor, which no later call
\* reads.
\* ApiSpecificTools.list_availible_schools: a GET with no type_filter and
\* the default data of send_request.
CallListAvailibleSchools ==
    /\ pc = "idle"
    /\ \E self \in Analytics("api"), as_frame \in BOOLEAN :
       \E region_code \in {JStr("51"), JStr("51760")} :
       \E region_type \in {JInt(0), JInt(4), JList(<<JInt(1), JInt(2)>>)} :
       \E reply \in EndpointReplies(SchoolsContents) :
           /\ pc' = "done"
           /\ fn' = "ApiSpecificTools.list_availible_schools"
           /\ args' = [self |-> self, region_code |-> region_code,
                       region_type |-> region_type, as_frame |-> as_frame]
           /\ requests' = Sent(PreparedRequest(self.token, "GET",
                                                SchoolsTarget(region_type, region_code),
                                                None, JDict(<<>>)), reply)
           /\ replies' = <<reply>>
           /\ printed' = SendPrinted(reply)
           /\ ret' = list_availible_schools(SendOutcome(reply), as_frame)
           /\ UNCHANGED <<payload, cnxn, constructor, calls>>

Finish ==
    /\ pc = "done"
    /\ pc' = "idle"
    /\ fn' = "none"
    /\ args' = <<>>
    /\ ret' = NoOutcome
    /\ requests' = <<>>
    /\ replies' = <<>>
    /\ printed' = <<>>
    /\ UNCHANGED <<payload, cnxn, constructor, calls>>

NextParse ==
    \/ CallCoreAnalytic
    \/ CallMaps
    \/ CallDemoCurrent
    \/ CallLaborWageTrends
    \/ CallV2Core
    \/ CallV2CoreRtiOvertime
    \/ CallResumes
    \/ CallListAvailible
    \/ CallTypeAvailible
    \/ Finish

SpecParse == Init /\ [][NextParse]_vars

NextTransport == CallSendRequest \/ CallGetToken \/ Finish

SpecTransport == Init /\ [][NextTransport]_vars

NextRti ==
    \/ CallRtiFilterRepr
    \/ CallJobPostings
    \/ CallJobPostingsOverTime
    \/ CallJobPostingWages
    \/ CallRtiResumes
    \/ Finish

SpecRti == Init /\ [][NextRti]_vars

NextDataFetch ==
    \/ CallDfFieldRepr
    \/ CallDataFetchOccupation
    \/ Finish

SpecDataFetch == Init /\ [][NextDataFetch]_vars

NextPayload ==
    \/ CallPayloadConstructor
    \/ CallAdd
    \/ CallNestPayload
    \/ Finish

SpecPayload == Init /\ [][NextPayload]_vars

\* A connection and endpoints called on it.
NextConnection ==
    \/ CallJobsEqConnection
    \/ CallEmployment
    \/ CallSalesOutput
    \/ CallOccupationMix
    \/ CallWhatIf
    \/ CallDataFetchOccupation
    \/ Finish

SpecConnection == Init /\ [][NextConnection]_vars

NextApi == CallListAvailibleSchools \/ Finish

SpecApi == Init /\ [][NextApi]_vars

Next ==
    NextParse \/ NextTransport \/ NextRti \/ NextDataFetch \/ NextPayload
    \/ NextConnection \/ NextApi

Spec == Init /\ [][Next]_vars

(***************************************************************************)
(* Properties.                                                             *)
(***************************************************************************)
Returned(name) == pc = "done" /\ fn = name /\ ret.kind = "return"

\* C1: send_request returns a response only when its status code is 200,
\* and then that very response; for a response with any other status
\* code, 401 included, it raises an HTTP error and returns nothing.
C1_ReturnsOnly200 ==
    (pc = "done" /\ fn = "EqRequest.send_request") =>
        /\ ret.kind \in {"return", "raise"}
        /\ ret.kind = "return" =>
               /\ replies[1].kind = "response"
               /\ replies[1].response.status_code = 200
               /\ ret.value = replies[1].response
        /\ (replies[1].kind = "response" /\ replies[1].response.status_code # 200) =>
               /\ ret.kind = "raise"
               /\ ret.error = "HTTPError"

\* A call answered with status 201, which ended by raising an HTTP error.
C1_Witness ==
    /\ pc = "done" /\ fn = "EqRequest.send_request"
    /\ replies[1].kind = "response"
    /\ replies[1].response.status_code = 201
    /\ ret.kind = "raise"
    /\ ret.error = "HTTPError"

\* The columns of a returned table, whichever its representation: the
\* <<name, values>> pairs of the dict, or of the frame.
ItemsOf(value) ==
    IF value.t = "dict" THEN value.v
    ELSE [i \in 1..Len(value.columns) |-> <<value.columns[i].v, value.data[i]>>]

\* The first position of a table reply's columns whose name is `key`.
FirstNamed(columns, key) ==
    CHOOSE j \in 1..Len(columns) :
        /\ columns[j].name = JStr(key)
        /\ \A i \in 1..(j - 1) : columns[i].name # JStr(key)

\* The member that stands for a dict cell: displayText before displayValue
\* before code.
PriorityMember(cell) ==
    IF DictHas(cell.v, "displayText") THEN "displayText"
    ELSE IF DictHas(cell.v, "displayValue") THEN "displayValue"
    ELSE "code"

Unwrapped(cell) ==
    IF cell.t # "dict" THEN cell ELSE DictGet(cell.v, PriorityMember(cell))

\* C2: every value of the table core_analytic returns is its source cell
\* itself when that cell is no dict, and otherwise the cell's displayText
\* if it has one, else its displayValue, else its code.
C2_UnwrapByPriority ==
    Returned("Parse.core_analytic") =>
        LET tb == args.response.table
            out == ItemsOf(ret.value)
        IN \A i \in 1..Len(out) : \A r \in 1..Len(tb.rows) :
               out[i][2][r] = Unwrapped(tb.rows[r][FirstNamed(tb.columns, out[i][1])])

\* A returned table with a kept column fed by a plain cell and by a dict
\* cell that has displayValue and code but no displayText.
C2_Witness ==
    /\ Returned("Parse.core_analytic")
    /\ LET tb == args.response.table
           out == ItemsOf(ret.value)
       IN /\ Len(out) >= 1
          /\ \E r \in 1..Len(tb.rows) :
                 tb.rows[r][FirstNamed(tb.columns, out[1][1])].t # "dict"
          /\ \E r \in 1..Len(tb.rows) :
                 LET cell == tb.rows[r][FirstNamed(tb.columns, out[1][1])]
                 IN /\ cell.t = "dict"
                    /\ ~DictHas(cell.v, "displayText")
                    /\ DictHas(cell.v, "displayValue")
                    /\ DictHas(cell.v, "code")

\* The unwrapped cell at position j of a row; a row too short has none.
CellAt(row, j) == IF j <= Len(row) THEN Unwrapped(row[j]) ELSE [t |-> "missing"]

\* C3 as stated: every position j with a non-empty name has its name
\* mapped to the unwrapped cells at position j of the rows, in row order.
C3_EveryPositionPivoted ==
    Returned("Parse.core_analytic") =>
        LET tb == args.response.table
            out == ItemsOf(ret.value)
        IN \A j \in 1..Len(tb.columns) :
               Truthy(tb.columns[j].name) =>
                   /\ DictHas(out, tb.columns[j].name.v)
                   /\ DictGet(out, tb.columns[j].name.v)
                        = [r \in 1..Len(tb.rows) |-> CellAt(tb.rows[r], j)]

\* C3 as amended: the same for every position j whose non-empty name
\* occurs at no earlier position; a name that occurs again keeps the
\* cells of its first position.
C3_FirstPositionPivoted ==
    Returned("Parse.core_analytic") =>
        LET tb == args.response.table
            out == ItemsOf(ret.value)
        IN \A j \in 1..Len(tb.columns) :
               /\ Truthy(tb.columns[j].name)
               /\ \A i \in 1..(j - 1) : tb.columns[i].name # tb.columns[j].name
               => /\ DictHas(out, tb.columns[j].name.v)
                  /\ DictGet(out, tb.columns[j].name.v)
                       = [r \in 1..Len(tb.rows) |-> CellAt(tb.rows[r], j)]

\* A returned table of two rows and two columns, the second column with
\* a name of its own and different cells in the two rows.
C3_Witness ==
    /\ Returned("Parse.core_analytic")
    /\ LET tb == args.response.table
       IN /\ Len(tb.columns) = 2 /\ Len(tb.rows) = 2
          /\ Truthy(tb.columns[1].name) /\ Truthy(tb.columns[2].name)
          /\ tb.columns[1].name # tb.columns[2].name
          /\ Len(tb.rows[1]) = 2 /\ Len(tb.rows[2]) = 2
          /\ Unwrapped(tb.rows[1][2]) # Unwrapped(tb.rows[2][2])
          /\ Unwrapped(tb.rows[1][1]) # Unwrapped(tb.rows[1][2])

\* The rows a call emits: all rows of the reply; for resumes, the rows
\* not labelled "Unclassified".
RECURSIVE CountRows(_)
CountRows(groups) ==
    IF groups = <<>> THEN 0
    ELSE Cardinality({k \in 1..Len(groups[1].rows) :
                         fn = "Parse.resumes"
                             => groups[1].rows[k].label # JStr("Unclassified")})
         + CountRows(Tail(groups))

RowsEmitted ==
    CASE fn = "Parse.core_analytic" -> Len(args.response.table.rows)
      [] fn = "Parse.maps" -> Len(args.response.map.map.rows)
      [] fn = "Parse.demo_current" -> CountRows(args.response.table.sections)
      [] fn = "Parse.v2_core" -> Len(args.response.data)
      [] fn = "Parse.resumes" -> CountRows(args.results.tables)

ColumnMapParsers ==
    {"Parse.core_analytic", "Parse.maps", "Parse.demo_current", "Parse.v2_core",
     "Parse.resumes"}

\* C4: in the table core_analytic, maps, demo_current, v2_core or resumes
\* returns, every column holds as many values as the call emitted rows.
C4_ColumnsOfEqualLength ==
    (pc = "done" /\ fn \in ColumnMapParsers /\ ret.kind = "return") =>
        \A i \in 1..Len(ItemsOf(ret.value)) :
            Len(ItemsOf(ret.value)[i][2]) = RowsEmitted

\* A resume table returned from two non-empty sub-tables of which one row
\* is labelled "Unclassified".
C4_Witness ==
    /\ Returned("Parse.resumes")
    /\ Len(args.results.tables) = 2
    /\ \A i \in 1..2 : Len(args.results.tables[i].rows) = 2
    /\ RowsEmitted = 3
    /\ Len(ItemsOf(ret.value)) = 4

\* C5: no value of a table maps returns is a JSON object.
C5_MapsValuesAreScalars ==
    Returned("Parse.maps") =>
        LET out == ItemsOf(ret.value)
        IN \A i \in 1..Len(out) : \A r \in 1..Len(out[i][2]) :
               out[i][2][r].t # "dict"

\* What the call in `fn` and `args` yields for another as_frame.
ParseAgain(as_frame) ==
    CASE fn = "Parse.core_analytic" -> core_analytic(args.response, as_frame)
      [] fn = "Parse.maps" -> maps(args.response, as_frame)
      [] fn = "Parse.demo_current" -> demo_current(args.response, as_frame)
      [] fn = "Parse.labor_wage_trends" -> labor_wage_trends(args.response, as_frame)
      [] fn = "Parse.v2_core" -> v2_core(args.response, as_frame)
      [] fn = "Parse.v2_core_rti_overtime" -> v2_core_rti_overtime(args.response, as_frame)
      [] fn = "Parse.resumes" -> resumes(args.results, as_frame)
      [] fn = "Parse.list_availible" ->
             list_availible(args.unparsed_response, args.analytic_prefix, as_frame)
      [] fn = "Parse.type_availible" ->
             type_availible(args.unparsed_response, args.analytic_name, as_frame)

TableParsers ==
    {"Parse.core_analytic", "Parse.maps", "Parse.demo_current",
     "Parse.labor_wage_trends", "Parse.v2_core", "Parse.v2_core_rti_overtime",
     "Parse.resumes"}

ListParsers == {"Parse.list_availible", "Parse.type_availible"}

\* The rows of a column mapping: the length of its columns.
MappingRows(items) == IF items = <<>> THEN 0 ELSE Len(items[1][2])

\* The frame has the mapping's keys as its columns, in order, and the
\* mapping's number of rows.
FrameMatches(frame, mapping) ==
    /\ frame.t = "frame"
    /\ mapping.t = "dict"
    /\ frame.columns = [i \in 1..Len(mapping.v) |-> JStr(mapping.v[i][1])]
    /\ frame.nrows = MappingRows(mapping.v)

\* C6 as stated: for every Parse function, the result with as_frame false
\* is a dict and the result with as_frame true is a frame with the keys of
\* that dict as its columns, in order, and the same number of rows.
C6_EveryParserFrameMatches ==
    (pc = "done" /\ fn \in TableParsers \cup ListParsers /\ ret.kind = "return") =>
        IF args.as_frame
        THEN /\ ParseAgain(FALSE).kind = "return"
             /\ FrameMatches(ret.value, ParseAgain(FALSE).value)
        ELSE ret.value.t = "dict"

\* C6 as amended: that holds for the parsers that return a column mapping
\* (core_analytic, maps, demo_current, labor_wage_trends, v2_core,
\* v2_core_rti_overtime, resumes), which also fail alike for both values
\* of as_frame, save that v2_core_rti_overtime with as_frame true raises
\* KeyError when the mapping has no "date" column.  list_availible and
\* type_availible return a dict keyed by code whose frame has one row per
\* key and a first column named after the prefix, not after the keys.
C6_TableParserFrameMatches ==
    /\ (pc = "done" /\ fn \in TableParsers) =>
           IF ret.kind = "return"
           THEN IF args.as_frame
                THEN /\ ParseAgain(FALSE).kind = "return"
                     /\ FrameMatches(ret.value, ParseAgain(FALSE).value)
                ELSE ret.value.t = "dict"
           ELSE \/ ParseAgain(FALSE) = ret
                \/ /\ fn = "Parse.v2_core_rti_overtime"
                   /\ args.as_frame
                   /\ ret = Raise("KeyError")
                   /\ ParseAgain(FALSE).kind = "return"
                   /\ ~DictHas(ParseAgain(FALSE).value.v, "date")
    /\ (pc = "done" /\ fn \in ListParsers) =>
           IF ret.kind = "return"
           THEN IF args.as_frame
                THEN /\ ret.value.t = "frame"
                     /\ ParseAgain(FALSE).kind = "return"
                     /\ ret.value.nrows = Len(ParseAgain(FALSE).value.v)
                     /\ ret.value.columns[1] =
                            IF fn = "Parse.list_availible"
                            THEN JStr(args.analytic_prefix \o "_code")
                            ELSE JStr(args.analytic_name \o "_id")
                ELSE ret.value.t = "dict"
           ELSE ParseAgain(FALSE) = ret

\* A frame of two columns and two rows returned by labor_wage_trends.
C6_Witness ==
    /\ Returned("Parse.labor_wage_trends")
    /\ args.as_frame
    /\ ret.value.t = "frame"
    /\ Len(ret.value.columns) = 2
    /\ ret.value.nrows = 2

\* The position, among all rows of the sections taken in order, of row k
\* of section i.
RowNumber(groups, i, k) ==
    LET before[n \in 0..(i - 1)] ==
            IF n = 0 THEN 0 ELSE before[n - 1] + Len(groups[n].rows)
    IN before[i - 1] + k

\* C7: demo_current returns exactly the columns Demographic, Value and
\* Percentage, in that order, and the entries of row k of section i, at
\* that row's position overall, are row[0].displayText, row[2].value and
\* row[1].
C7_DemoCurrentColumns ==
    Returned("Parse.demo_current") =>
        LET sections == args.response.table.sections
            out == ItemsOf(ret.value)
        IN /\ DictKeys(out) = <<"Demographic", "Value", "Percentage">>
           /\ \A c \in 1..3 : Len(out[c][2]) = CountRows(sections)
           /\ \A i \in 1..Len(sections) : \A k \in 1..Len(sections[i].rows) :
                  LET row == sections[i].rows[k]
                      n == RowNumber(sections, i, k)
                  IN /\ out[1][2][n] = DictGet(row[1].v, "displayText")
                     /\ out[2][2][n] = DictGet(row[3].v, "value")
                     /\ out[3][2][n] = row[2]

\* A table returned from two sections of two different rows each.
C7_Witness ==
    /\ Returned("Parse.demo_current")
    /\ LET sections == args.response.table.sections
       IN /\ Len(sections) = 2
          /\ \A i \in 1..2 : /\ Len(sections[i].rows) = 2
                             /\ sections[i].rows[1] # sections[i].rows[2]
    /\ Len(ItemsOf(ret.value)[1][2]) = 4

\* The rows of sub-table i that are kept: those not labelled Unclassified.
KeptBefore(rows, k) ==
    Cardinality({m \in 1..k : rows[m].label # JStr("Unclassified")})

KeptInTables(tables, i) ==
    LET upto[n \in 0..i] ==
            IF n = 0 THEN 0
            ELSE upto[n - 1] + KeptBefore(tables[n].rows, Len(tables[n].rows))
    IN upto[i]

\* C8: resumes returns exactly the columns Category, Label, Counts and
\* Entry Wages; every row not labelled "Unclassified" gives one entry, in
\* the order of the sub-tables and of their rows, with its sub-table's
\* category; a row labelled "Unclassified" gives none.
C8_ResumesColumns ==
    Returned("Parse.resumes") =>
        LET tables == args.results.tables
            out == ItemsOf(ret.value)
        IN /\ DictKeys(out) = <<"Category", "Label", "Counts", "Entry Wages">>
           /\ \A c \in 1..4 : Len(out[c][2]) = KeptInTables(tables, Len(tables))
           /\ \A n \in 1..Len(out[2][2]) : out[2][2][n] # JStr("Unclassified")
           /\ \A i \in 1..Len(tables) : \A k \in 1..Len(tables[i].rows) :
                  LET row == tables[i].rows[k]
                      n == KeptInTables(tables, i - 1) + KeptBefore(tables[i].rows, k)
                  IN row.label # JStr("Unclassified") =>
                         /\ out[1][2][n] = tables[i].category
                         /\ out[2][2][n] = row.label
                         /\ out[3][2][n] = row.count
                         /\ out[4][2][n] = row.entryWages

\* A table returned from two sub-tables, the first with an Unclassified
\* row followed by another, the second with two rows that are kept.
C8_Witness ==
    /\ Returned("Parse.resumes")
    /\ LET tables == args.results.tables
       IN /\ Len(tables) = 2
          /\ Len(tables[1].rows) = 2 /\ Len(tables[2].rows) = 2
          /\ tables[1].rows[1].label = JStr("Unclassified")
          /\ tables[1].rows[2].label # JStr("Unclassified")
          /\ KeptBefore(tables[2].rows, 2) = 2
          /\ tables[2].rows[1] # tables[2].rows[2]
    /\ Len(ItemsOf(ret.value)[1][2]) = 3

\* C9: labor_wage_trends returns exactly two columns, "Date" and one
\* more, holding element 0 and element 1 of the data points of the first
\* series, in order.
C9_TrendsTwoColumns ==
    Returned("Parse.labor_wage_trends") =>
        LET data == DictGet(args.response.chart.v, "series").v[1].data
            out == ItemsOf(ret.value)
        IN /\ Len(out) = 2
           /\ out[1][1] = "Date"
           /\ Len(out[1][2]) = Len(data)
           /\ \A k \in 1..Len(data) :
                  /\ out[1][2][k] = IF args.as_frame THEN ToDatetime(data[k][1])
                                    ELSE data[k][1]
                  /\ out[2][2][k] = data[k][2]

\* A filter attribute as JSON text: null for None, else the quoted string.
AttributeText(x) == IF x = None THEN "null" ELSE "\"" \o x.v \o "\""

\* The one-element lists of the filters' reprs, one after the other.
RECURSIVE ReprFilters(_)
ReprFilters(filters) ==
    IF filters = <<>> THEN <<>>
    ELSE DictGet(RtiFilterBody(filters[1]), "filters").v \o ReprFilters(Tail(filters))

RtiEndpoints ==
    {"RtiAnalytics.job_postings", "RtiAnalytics.job_postings_over_time",
     "RtiAnalytics.job_posting_wages", "RtiAnalytics.resumes"}

\* C10: the repr of an RtiFilter is the JSON text of an object whose only
\* member, filters, is a list of the one object {field, key, filterType};
\* and the filters member of the body an RTI endpoint sends is the list of
\* those objects for the filters passed, in order (empty when none is).
C10_FiltersInRequest ==
    /\ (pc = "done" /\ fn = "RtiFilter.__repr__") =>
           /\ ret = Return("{\"filters\": [{\"field\": " \o AttributeText(args.self.field)
                           \o ", \"key\": " \o AttributeText(args.self.key)
                           \o ", \"filterType\": " \o AttributeText(args.self.filtertype)
                           \o "}]}")
           /\ args.self = [field |-> JStr("occ"), key |-> JStr("11-1010"),
                           filtertype |-> JStr("Is")] =>
                  ret.value = "{\"filters\": [{\"field\": \"occ\", \"key\": \"11-1010\", \"filterType\": \"Is\"}]}"
    /\ (pc = "done" /\ fn \in RtiEndpoints) =>
           /\ Len(requests) = 1
           /\ requests[1].data = JStr(JsonDumps(JDict(payload)))
           /\ Cardinality({i \in 1..Len(payload) : payload[i][1] = "filters"}) = 1
           /\ DictGet(payload, "filters") =
                  JList(IF args.rti_filters = None THEN <<>>
                        ELSE ReprFilters(args.rti_filters.v))

\* A resumes call that was passed two different filters.
C10_Witness ==
    /\ pc = "done" /\ fn = "RtiAnalytics.resumes"
    /\ args.rti_filters # None
    /\ Len(args.rti_filters.v) = 2
    /\ args.rti_filters.v[1] # args.rti_filters.v[2]
    /\ Len(DictGet(payload, "filters").v) = 2

(***************************************************************************)
(* DfField and DataFetch.occupation                                        *)
(***************************************************************************)
\* The member `key` of a dict value, or "absent".
Member(d, key) == IF DictHas(d.v, key) THEN DictGet(d.v, key) ELSE [t |-> "absent"]

\* C11: the repr of a DfField is the JSON text of an object with 'field'
\* and a one-element 'timePoints' list whose element holds 'date' and
\* 'interval', and holds 'offset' exactly when the field's offset is set
\* to a non-zero value; for DfField("empl_placeOfWork", "2020-01-01",
\* "Quarterly") it is the text the repository's test expects.
C11_DfFieldRepr ==
    (pc = "done" /\ fn = "DfField.__repr__") =>
        LET f == args.self
            offsetSet == f.offset # None /\ f.offset # JInt(0)
            point == JDict(IF offsetSet
                           THEN << <<"date", f.date>>, <<"interval", f.interval>>,
                                   <<"offset", f.offset>> >>
                           ELSE << <<"date", f.date>>, <<"interval", f.interval>> >>)
        IN /\ ret = Return(JsonDumps(JDict(<< <<"field", f.field>>,
                                              <<"timePoints", JList(<<point>>)>> >>)))
           /\ (f = [field |-> JStr("empl_placeOfWork"), date |-> JStr("2020-01-01"),
                    interval |-> JStr("Quarterly"), offset |-> None]
               => ret.value = "{\"field\": \"empl_placeOfWork\", \"timePoints\": "
                              \o "[{\"date\": \"2020-01-01\", \"interval\": \"Quarterly\"}]}")

\* A repr of a DfField whose offset is zero has been computed.
C11_Witness ==
    /\ pc = "done"
    /\ fn = "DfField.__repr__"
    /\ args.self.offset = JInt(0)
    /\ args.self.date # None
    /\ ret.kind = "return"

\* The fields of a DataFetch.occupation call, as a sequence.
FieldsOf(a) == IF Truthy(a.fields) THEN a.fields.v ELSE <<>>

\* C12: when a DfField passed to DataFetch.occupation has an offset set,
\* the request is sent and the body's entry for that field carries the
\* offset in its time point.
C12_OffsetCarried ==
    (pc = "done" /\ fn = "DataFetch.occupation") =>
        \A i \in 1..Len(FieldsOf(args)) :
            Truthy(FieldsOf(args)[i].offset) =>
                /\ Len(requests) = 1
                /\ LET entry == DictGet(payload, "fields").v[i]
                       points == IF DictHas(entry.v, "timePoints")
                                 THEN Member(entry, "timePoints")
                                 ELSE Member(entry, "timepoints")
                   IN /\ points.t = "list"
                      /\ points.v # <<>>
                      /\ Member(points.v[1], "offset") = FieldsOf(args)[i].offset

\* The reply a DataFetch.occupation call got was a decodable one with
\* status 200 and a 'data' member.
DataReply ==
    /\ Len(replies) = 1
    /\ replies[1].kind = "response"
    /\ replies[1].response.status_code = 200
    /\ replies[1].response.content # Garbage
    /\ "data" \in DOMAIN replies[1].response.content

NamedItems(name, a) ==
    LET x == a.positional
        codeType == JDict(<< <<"code", x[1]>>, <<"type", x[2]>> >>)
    IN CASE name = "PayloadConstructor.add_region" -> << <<"region", codeType>> >>
         [] name = "PayloadConstructor.add_regions" -> << <<"regions", JList(<<codeType>>)>> >>
         [] name = "PayloadConstructor.add_regionFilter" -> << <<"regionFilter", codeType>> >>
         [] name = "PayloadConstructor.add_occupation" -> << <<"occupation", codeType>> >>
         [] name = "PayloadConstructor.add_occupations" ->
                << <<"occupations", JList(<<codeType>>)>> >>
         [] name = "PayloadConstructor.add_rti_occupation" ->
                << <<"rtiOccupation", codeType>> >>
         [] name = "PayloadConstructor.add_industry" -> << <<"industry", codeType>> >>
         [] name = "PayloadConstructor.add_cip" -> << <<"cip", codeType>> >>
         [] name = "PayloadConstructor.add_cipsoc" -> << <<"cipSoc", codeType>> >>
         [] name = "PayloadConstructor.add_skill" -> << <<"skill", codeType>> >>
         [] name = "PayloadConstructor.add_by_keyword" -> a.kwargs
         [] name = "PayloadConstructor.add_impact_region" ->
                << <<"impactRegion", codeType>> >>
         [] name = "PayloadConstructor.add_event_region" -> << <<"eventRegion", codeType>> >>
         [] name = "PayloadConstructor.add_rti_filter" ->
                << <<"filters", JList(<<JDict(<< <<"field", x[1]>>, <<"key", x[2]>>,
                                                 <<"filterType", x[3]>> >>)>>)>> >>
         [] name = "PayloadConstructor.add_rti_filter_empty" ->
                << <<"filters", JList(<<>>)>> >>
         [] OTHER -> <<>>

AddOperations == {c.fn : c \in AddCalls}

\* C13: an add operation of PayloadConstructor sets the top-level keys it
\* names, each to the value it names, whatever value the key had before;
\* every other top-level key of the payload keeps its value, and no other
\* key appears.
C13_AddSetsOnlyNamedKeys ==
    (pc = "done" /\ fn \in AddOperations) =>
        LET before == args.self.payload
            after == constructor.payload
            named == NamedItems(fn, args)
        IN /\ \A i \in 1..Len(named) :
                  /\ DictHas(after, named[i][1])
                  /\ DictGet(after, named[i][1]) = named[i][2]
           /\ \A i \in 1..Len(before) :
                  ~DictHas(named, before[i][1]) =>
                      /\ DictHas(after, before[i][1])
                      /\ DictGet(after, before[i][1]) = before[i][2]
           /\ \A i \in 1..Len(after) :
                  DictHas(named, after[i][1]) \/ DictHas(before, after[i][1])
           /\ \A i, j \in 1..Len(after) : after[i][1] = after[j][1] => i = j

\* An add operation has replaced the value of a key that the payload had,
\* beside a key it does not name.
C13_Witness ==
    /\ pc = "done"
    /\ fn \in AddOperations
    /\ \E i \in 1..Len(NamedItems(fn, args)) :
           /\ DictHas(args.self.payload, NamedItems(fn, args)[i][1])
           /\ DictGet(args.self.payload, NamedItems(fn, args)[i][1])
                  # NamedItems(fn, args)[i][2]
    /\ \E i \in 1..Len(args.self.payload) :
           ~DictHas(NamedItems(fn, args), args.self.payload[i][1])

\* Call j is a nest_payload, and the calls after it up to call k are add
\* operations.
AddsAfterNest(j, k) ==
    /\ calls[j].fn = "PayloadConstructor.nest_payload"
    /\ \A m \in (j + 1)..k : calls[m].fn \in AddOperations

\* C14: nest_payload(k) leaves a payload with exactly one top-level key, k,
\* whose value is the whole payload as it was before the call; the keys
\* that add operations name afterwards are top-level keys of the payload,
\* and the value under k stays the nested payload (until an operation
\* names k itself and replaces it): nothing is added under k.
C14_NestWrapsWholePayload ==
    /\ (pc = "done" /\ fn = "PayloadConstructor.nest_payload") =>
           constructor.payload = << <<args.nest_key, JDict(args.self.payload)>> >>
    /\ \A j \in 1..Len(calls) : \A k \in j..Len(calls) :
           AddsAfterNest(j, k) =>
               LET nest_key == calls[j].args.nest_key
                   nested == JDict(calls[j].args.self.payload)
                   renamed == \E m \in (j + 1)..k :
                                  DictHas(NamedItems(calls[m].fn, calls[m].args), nest_key)
               IN /\ DictHas(calls[k].payload, nest_key)
                  /\ ~renamed => DictGet(calls[k].payload, nest_key) = nested
                  /\ \A m \in (j + 1)..k :
                         \A i \in 1..Len(NamedItems(calls[m].fn, calls[m].args)) :
                             DictHas(calls[k].payload,
                                     NamedItems(calls[m].fn, calls[m].args)[i][1])
                  /\ \A i \in 1..Len(calls[k].payload) :
                         \/ calls[k].payload[i][1] = nest_key
                         \/ \E m \in (j + 1)..k :
                                DictHas(NamedItems(calls[m].fn, calls[m].args),
                                        calls[k].payload[i][1])

\* A payload with a key was nested, and a later add operation has put
\* another key beside the nesting.
C14_Witness ==
    /\ pc = "done"
    /\ Len(calls) = 3
    /\ calls[2].fn = "PayloadConstructor.nest_payload"
    /\ calls[2].args.self.payload # <<>>
    /\ calls[3].fn \in AddOperations
    /\ Len(constructor.payload) = 2

(***************************************************************************)
(* Endpoint calls and the connection                                       *)
(***************************************************************************)
TokenUrl == "http://jobseq.eqsuite.com/token"

ObjectOf(code, type) == JDict(<< <<"code", code>>, <<"type", type>> >>)

\* The entry of the request body for one DfField of DataFetch.occupation.
ExpectedField(f) ==
    JDict(<< <<"field", f.field>>,
             <<"timepoints",
               IF Truthy(f.date) /\ Truthy(f.interval)
               THEN JList(<<JDict(<< <<"date", f.date>>, <<"interval", f.interval>> >>)>>)
               ELSE JList(<<>>)>> >>)

\* The request body of an endpoint call, written out from its arguments.
ExpectedBody(name, a) ==
    CASE name = "EconomicImpactCompound.employment"
             \/ name = "EconomicImpactCompound.sales_output" ->
           JDict(<< <<"impactRegion", ObjectOf(a.impact_region, a.impact_region_type)>> >>
                 \o (IF a.event_region = None /\ a.event_region_type = None THEN <<>>
                     ELSE << <<"eventRegion",
                               ObjectOf(a.event_region, a.event_region_type)>> >>)
                 \o << <<"industry", ObjectOf(a.ind_code, a.ind_type)>>,
                       <<"eventSize", a.eventSize>>,
                       <<"eventSizeType",
                         JStr(IF name = "EconomicImpactCompound.employment"
                              THEN "Employment" ELSE "SaleOutput")>> >>)
      [] name = "IndustryOccupationMixCompound.occupation_mix" ->
           JDict(<< <<"indDist",
                      JDict(<< <<"region", ObjectOf(a.region, a.region_type)>>,
                               <<"occupation", ObjectOf(a.soc_code, a.soc_type)>>,
                               <<"years", a.years>>, <<"model", a.model>> >>)>>,
                    <<"queryType", JStr("IndDist")>>,
                    <<"datasetKey", JStr("OccDist")>> >>)
      [] name = "CoreAnalytics.what_if" ->
           JDict(<< <<"whatIf",
                      JDict(<< <<"regions", JList(<<ObjectOf(a.region, a.region_type)>>)>>,
                               <<"industry", ObjectOf(a.ind_code, a.ind_type)>>,
                               <<"firmSize", a.firm_size>>,
                               <<"type", a.expansion_contraction>> >>)>>,
                    <<"mode", JStr("WhatIf")>> >>)
      [] name = "DataFetch.occupation" ->
           JDict(<< <<"regions",
                      JList(<<JDict(<< <<"parent", ObjectOf(a.region, a.region_type)>>,
                                       <<"level", IF Truthy(a.sub_region_level)
                                                  THEN a.sub_region_level
                                                  ELSE a.region_type>> >>)>>)>>,
                    <<"occupations",
                      JList(<<JDict(<< <<"parent", ObjectOf(a.soc_code, a.soc_type)>>,
                                       <<"level", IF Truthy(a.sub_soc_level)
                                                  THEN a.sub_soc_level
                                                  ELSE a.soc_type>> >>)>>)>>,
                    <<"fields", JList([i \in 1..Len(FieldsOf(a)) |->
                                          ExpectedField(FieldsOf(a)[i])])>>,
                    <<"pageKey", a.pageKey>>, <<"pageSize", a.pageSize>> >>)

ConnectionEndpoints ==
    {"EconomicImpactCompound.employment", "EconomicImpactCompound.sales_output",
     "IndustryOccupationMixCompound.occupation_mix", "CoreAnalytics.what_if",
     "DataFetch.occupation"}

\* C15: the body an endpoint call sends is a function of that call's
\* arguments alone: whatever calls were made before it, on a connection or
\* without one, it is the body written out from the arguments, built from
\* an empty payload.
C15_BodyDependsOnArgumentsOnly ==
    (pc = "done" /\ fn \in ConnectionEndpoints /\ requests # <<>>) =>
        /\ Len(requests) = 1
        /\ requests[1].data = JStr(JsonDumps(ExpectedBody(fn, args)))
        /\ JDict(payload) = ExpectedBody(fn, args)

\* An endpoint has been called on a connection and has sent a nested body.
C15_Witness ==
    /\ pc = "done"
    /\ fn = "IndustryOccupationMixCompound.occupation_mix"
    /\ cnxn # NoObject
    /\ args.self = cnxn.industry_occupation_mix
    /\ Len(requests) = 1
    /\ DictHas(payload, "indDist")

\* C16: a call of send_request puts at most one request on the wire, the
\* one it prepared with the token it was given: after an error status
\* (401 included) or a transport exception there is no second request and
\* no request for a token.
C16_AtMostOneRequest ==
    (pc = "done" /\ fn = "EqRequest.send_request") =>
        /\ Len(requests) <= 1
        /\ Len(replies) = Len(requests)
        /\ \A i \in 1..Len(requests) :
               /\ requests[i].url # TokenUrl
               /\ requests[i] = PreparedRequest(args.auth_token, args.method, args.target,
                                                args.type_filter, args.data)

\* send_request has ended in the error raised for status 401.
C16_Witness ==
    /\ pc = "done"
    /\ fn = "EqRequest.send_request"
    /\ replies[1].kind = "response"
    /\ replies[1].response.status_code = 401
    /\ ret.kind = "raise"
    /\ Len(requests) = 1

AnalyticGroups ==
    {"core", "api", "industry_occupation_mix", "labor_wage_trends", "supply_chain",
     "demographic_profile", "skill_gaps", "maps", "economic_impact", "awards_gap",
     "rti", "datafetch"}

\* The state part of C17.
ConnectionHoldsOneToken ==
    /\ (pc = "done" /\ fn = "JobsEqConnection.__init__" /\ ret.kind = "return") =>
           /\ Len(requests) = 1
           /\ requests[1].url = TokenUrl
           /\ cnxn = ret.value
           /\ cnxn.token = replies[1].response.content.access_token
    /\ cnxn # NoObject =>
           \A g \in AnalyticGroups : cnxn[g].token = cnxn.token
    /\ (pc = "done" /\ fn \in ConnectionEndpoints /\ cnxn # NoObject) =>
           /\ args.self.token = cnxn.token
           /\ \A i \in 1..Len(requests) :
                  /\ requests[i].url # TokenUrl
                  /\ DictGet(requests[i].headers, "Authorization")
                         = "Bearer " \o cnxn.token

\* C17: constructing a JobsEqConnection requests the token exactly once,
\* and every analytic group of the connection holds the token the
\* connection holds; an endpoint call requests no token, sends the
\* connection's token, and leaves the connection and its groups as they
\* are.
C17_OneTokenForAllGroups ==
    /\ []ConnectionHoldsOneToken
    /\ [][fn' # "JobsEqConnection.__init__" => cnxn' = cnxn]_vars

\* An endpoint has been called on a connection and has sent its request.
C17_Witness ==
    /\ pc = "done"
    /\ fn = "DataFetch.occupation"
    /\ cnxn # NoObject
    /\ args.self = cnxn.datafetch
    /\ Len(requests) = 1

\* C18: RtiAnalytics.job_postings raises no error for a reply with status
\* 200 that decodes to an object with a 'data' list: it returns a table,
\* also when the list is empty.
C18_JobPostingsNeverRaises ==
    (/\ pc = "done"
     /\ fn = "RtiAnalytics.job_postings"
     /\ replies[1].kind = "response"
     /\ replies[1].response.status_code = 200
     /\ replies[1].response.content # Garbage) => ret.kind = "return"

\* C20: employment and sales_output send a body with an 'eventRegion'
\* entry, made of event_region and event_region_type, exactly when one of
\* the two is not None; 'impactRegion', 'industry', 'eventSize' and
\* 'eventSizeType' are in the body in both cases.
C20_EventRegionWhenGiven ==
    (pc = "done" /\ fn \in {"EconomicImpactCompound.employment",
                            "EconomicImpactCompound.sales_output"}) =>
        /\ Len(requests) = 1
        /\ requests[1].data = JStr(JsonDumps(JDict(payload)))
        /\ DictHas(payload, "eventRegion")
               <=> (args.event_region # None \/ args.event_region_type # None)
        /\ DictHas(payload, "eventRegion") =>
               DictGet(payload, "eventRegion")
                   = JDict(<< <<"code", args.event_region>>,
                              <<"type", args.event_region_type>> >>)
        /\ \A k \in {"impactRegion", "industry", "eventSize", "eventSizeType"} :
               DictHas(payload, k)
        /\ \A i \in 1..Len(payload) :
               payload[i][1] \in {"impactRegion", "eventRegion", "industry",
                                  "eventSize", "eventSizeType"}

\* sales_output was called with an event region but no type for it, and
\* the body has the entry.
C20_Witness ==
    /\ pc = "done"
    /\ fn = "EconomicImpactCompound.sales_output"
    /\ args.event_region # None
    /\ args.event_region_type = None
    /\ DictHas(payload, "eventRegion")
    /\ Len(requests) = 1

(***************************************************************************)
(* Error paths and column names                                            *)
(***************************************************************************)
\* A dict cell with none of the three members core_analytic knows.
UnknownCell(cell) ==
    /\ cell.t = "dict"
    /\ ~DictHas(cell.v, "displayText")
    /\ ~DictHas(cell.v, "displayValue")
    /\ ~DictHas(cell.v, "code")

\* C21: when any cell of any row of the reply is a dict with none of
\* 'displayText', 'displayValue' and 'code', Parse.core_analytic ends in a
\* ValueError and returns no table, for either value of as_frame.
C21_ValueErrorOnUnknownCell ==
    (/\ pc = "done"
     /\ fn = "Parse.core_analytic"
     /\ \E r \in 1..Len(args.response.table.rows) :
            \E c \in 1..Len(args.response.table.rows[r]) :
                UnknownCell(args.response.table.rows[r][c]))
    => ret = Raise("ValueError")

\* The unknown cell was the last cell of the second row, after a first
\* row of cells core_analytic knows, and the call ended in ValueError.
C21_Witness ==
    /\ pc = "done"
    /\ fn = "Parse.core_analytic"
    /\ Len(args.response.table.rows) = 2
    /\ Len(args.response.table.rows[1]) = 2
    /\ \A c \in 1..2 : ~UnknownCell(args.response.table.rows[1][c])
    /\ Len(args.response.table.rows[2]) = 2
    /\ ~UnknownCell(args.response.table.rows[2][1])
    /\ UnknownCell(args.response.table.rows[2][2])
    /\ ret = Raise("ValueError")

\* The line send_request prints for an exception of requests.
PrintedFor(exc) ==
    CASE exc = "HTTPError" -> "Http Error: HTTPError"
      [] exc = "ConnectionError" -> "Error Connecting: ConnectionError"
      [] exc = "ConnectTimeout" -> "Error Connecting: ConnectTimeout"
      [] exc = "Timeout" -> "Timeout Error: Timeout"
      [] exc = "RequestException" -> "Other Error RequestException"

\* C22: when session.send raises a connection error, a timeout or another
\* exception of requests, send_request prints one line for it and the
\* call ends in an error: no response, and no other value, is returned.
C22_ExceptionEndsInError ==
    (/\ pc = "done"
     /\ fn = "EqRequest.send_request"
     /\ replies[1].kind = "exception"
     /\ replies[1].exc \in {"HTTPError", "ConnectionError", "ConnectTimeout", "Timeout",
                            "RequestException"})
    => /\ printed = <<PrintedFor(replies[1].exc)>>
       /\ ret.kind = "raise"
       /\ ret.error = "UnboundLocalError"

\* send_request has printed a timeout and ended in an error.
C22_Witness ==
    /\ pc = "done"
    /\ fn = "EqRequest.send_request"
    /\ replies[1] = Exception("Timeout")
    /\ printed = <<"Timeout Error: Timeout">>
    /\ ret.kind = "raise"

\* The column names of a maps reply after the renaming.
RenamedNames(names, titleCaption) ==
    [i \in 1..Len(names) |->
        IF i = 1 THEN JStr("RegionFIPS")
        ELSE IF i = 2 /\ names[i] = None THEN titleCaption
        ELSE names[i]]

\* The column names of the reply of a core_analytic or maps call, as the
\* parser takes them.
NamesOfReply ==
    IF fn = "Parse.core_analytic"
    THEN [i \in 1..Len(args.response.table.columns) |->
             args.response.table.columns[i].name]
    ELSE RenamedNames([i \in 1..Len(args.response.map.map.columns) |->
                          args.response.map.map.columns[i].name],
                      args.response.map.map.titleCaption)

\* C23: the keys of the table Parse.core_analytic or Parse.maps returns
\* are the distinct non-empty column names of the reply (for maps, after
\* its renaming), each once: a column whose name is empty or null gives no
\* key, and columns of the same name give one key.
C23_KeysAreDistinctNames ==
    (Returned("Parse.core_analytic") \/ Returned("Parse.maps")) =>
        LET out == ItemsOf(ret.value)
            names == NamesOfReply
        IN /\ {out[i][1] : i \in 1..Len(out)}
                  = {names[j].v : j \in {j \in 1..Len(names) :
                                            names[j] # None /\ names[j].v # ""}}
           /\ \A i, j \in 1..Len(out) : out[i][1] = out[j][1] => i = j

\* A table of one key returned for a reply of three columns, two of the
\* same name around one of an empty name.
C23_Witness ==
    /\ Returned("Parse.core_analytic")
    /\ Len(args.response.table.columns) = 3
    /\ Len(args.response.table.rows) = 1
    /\ args.response.table.columns[1].name = JStr("A")
    /\ args.response.table.columns[2].name = JStr("")
    /\ args.response.table.columns[3].name = JStr("A")
    /\ Len(ItemsOf(ret.value)) = 1
    /\ ItemsOf(ret.value)[1][1] = "A"

\* The first position of `names` that holds `name`.
FirstOf(names, name) ==
    CHOOSE j \in 1..Len(names) :
        /\ names[j] = name
        /\ \A i \in 1..(j - 1) : names[i] # name

\* C24: in the table Parse.maps returns, the first column of the reply is
\* named 'RegionFIPS' whatever its name was, the second is named with the
\* map's titleCaption exactly when its name in the reply is null, and every
\* other column keeps the name the reply gives it.
C24_MapsColumnNames ==
    Returned("Parse.maps") =>
        LET m == args.response.map.map
            names == [i \in 1..Len(m.columns) |-> m.columns[i].name]
            renamed == RenamedNames(names, m.titleCaption)
            out == ItemsOf(ret.value)
            keys == {out[i][1] : i \in 1..Len(out)}
        IN /\ "RegionFIPS" \in keys
           /\ (Truthy(names[1]) /\ \A j \in 2..Len(names) : names[j] # names[1])
                  => names[1].v \notin keys
           /\ "Title" \in keys <=> (names[2] = None /\ m.titleCaption = JStr("Title"))
           /\ \A j \in 2..Len(names) : Truthy(names[j]) => names[j].v \in keys
           /\ \A j \in 1..Len(names) : \A r \in 1..Len(m.rows) :
                  (Truthy(renamed[j]) /\ \A c \in 1..Len(m.rows[r]) : m.rows[r][c].t # "dict")
                      => DictGet(out, renamed[j].v)[r] = m.rows[r][FirstOf(renamed, renamed[j])]

\* The table returned for a map of three columns named 'A', null and 'B'
\* with the caption 'Title': 'RegionFIPS', 'Title' and 'B', each holding
\* the cell of its own column.
C24_Witness ==
    /\ Returned("Parse.maps")
    /\ LET m == args.response.map.map
       IN /\ Len(m.columns) = 3
          /\ m.columns[1].name = JStr("A")
          /\ m.columns[2].name = None
          /\ m.columns[3].name = JStr("B")
          /\ m.titleCaption = JStr("Title")
          /\ Len(m.rows) = 1
    /\ ItemsOf(ret.value) = << <<"RegionFIPS", <<JInt(1)>> >>, <<"Title", <<JInt(2)>> >>,
                               <<"B", <<JInt(3)>> >> >>

\* C25: the table Parse.v2_core returns has one column per key of the
\* first record, in the order of its keys; the column of key h holds
\* record[h] of every record, in order; a key that only a later record has
\* is no column of it.
C25_FirstRecordKeys ==
    Returned("Parse.v2_core") =>
        LET data == args.response.data
            first == DictKeys(data[1].v)
            out == ItemsOf(ret.value)
        IN /\ [i \in 1..Len(out) |-> out[i][1]] = first
           /\ \A i \in 1..Len(out) :
                  out[i][2] = [r \in 1..Len(data) |-> DictGet(data[r].v, out[i][1])]
           /\ \A r \in 2..Len(data) : \A k \in 1..Len(data[r].v) :
                  ~DictHas(data[1].v, data[r].v[k][1])
                      => \A i \in 1..Len(out) : out[i][1] # data[r].v[k][1]

\* A table of 'id' and 'title' returned for two records, the second of
\* which has a 'url' too.
C25_Witness ==
    /\ Returned("Parse.v2_core")
    /\ Len(args.response.data) = 2
    /\ DictKeys(args.response.data[1].v) = <<"id", "title">>
    /\ DictHas(args.response.data[2].v, "url")
    /\ [i \in 1..Len(ItemsOf(ret.value)) |-> ItemsOf(ret.value)[i][1]] = <<"id", "title">>
    /\ ItemsOf(ret.value)[1][2] = <<JInt(1), JInt(5)>>

====
